---- MODULE Spec2Model ----
(***************************************************************************)
(* reactor-di: the @module factory synthesizer (module.py), the            *)
(* @law_of_demeter delegation synthesizer (law_of_demeter.py) and the type *)
(* utilities both use (type_utils.py), modelled as a state machine over a  *)
(* small Python object world: class attribute tables, a heap of instances, *)
(* the per-class __getattribute__ hook and the log of user property calls. *)
(* A run imports one scenario (its class statements are decorated in       *)
(* program order) and then lets a client construct instances, read         *)
(* attributes and assign attributes.                                       *)
(***************************************************************************)
EXTENDS Integers, Sequences, FiniteSets, TLC

VARIABLES scenario, classTable, pc, heap, classAttrs, getattribute, declError, nops, last, returned

vars == <<scenario, classTable, pc, heap, classAttrs, getattribute, declError, nops, last, returned>>

(* Bounds of the model *)
MaxObjects == 5
MaxOps == 5
MaxDepth == 8

(***************************************************************************)
(* Values: every Python value the scenarios use is a primitive (an integer *)
(* code), a reference to a heap object, or None.                           *)
(***************************************************************************)
Prim(n) == [t |-> "prim", v |-> n]
Ref(n) == [t |-> "ref", v |-> n]
NoneVal == [t |-> "none", v |-> 0]

EmptyDict == [x \in {} |-> NoneVal]
EmptyMap == [x \in {} |-> ""]

(* Descriptors found in a class __dict__ *)
Value(v) == [kind |-> "value", val |-> v, label |-> "", ret |-> "", base |-> "", target |-> "", type |-> ""]
Property(lbl, r, v) == [kind |-> "prop", val |-> v, label |-> lbl, ret |-> r, base |-> "", target |-> "", type |-> ""]
CachedProperty(lbl, r, v) == [kind |-> "cprop", val |-> v, label |-> lbl, ret |-> r, base |-> "", target |-> "", type |-> ""]
Forwarding(b, tg) == [kind |-> "fwd", val |-> NoneVal, label |-> "", ret |-> "", base |-> b, target |-> tg, type |-> ""]
FactoryProperty(n, ty) == [kind |-> "factory", val |-> NoneVal, label |-> n, ret |-> "", base |-> "", target |-> "", type |-> ty]
FactoryCached(n, ty) == [kind |-> "cfactory", val |-> NoneVal, label |-> n, ret |-> "", base |-> "", target |-> "", type |-> ty]

Absent == [kind |-> "absent", val |-> NoneVal, label |-> "", ret |-> "", base |-> "", target |-> "", type |-> ""]

NoMembers == [x \in {} |-> Value(NoneVal)]

(* A statement of a constructor body: self.<attr> = <src> *)
FromParam(a, i) == [attr |-> a, src |-> "param", n |-> i, cls |-> ""]
FromConst(a, v) == [attr |-> a, src |-> "const", n |-> v, cls |-> ""]
FromNew(a, c) == [attr |-> a, src |-> "new", n |-> 0, cls |-> c]
FromId(a) == [attr |-> a, src |-> "id", n |-> 0, cls |-> ""]

Hint(name, ty) == [n |-> name, t |-> ty]

(* A class statement: its linearized ancestry (object left out), its own
   annotations in source order, whether typing.get_type_hints can resolve
   them, its class-level members, and its constructor. *)
ClassStmt(m, a, res, mem, hi, p, b, lg) ==
    [mro |-> m, ann |-> a, resolvable |-> res, members |-> mem,
     hasInit |-> hi, params |-> p, body |-> b, initLog |-> lg]

Plain(c, a, mem) == ClassStmt(<<c>>, a, TRUE, mem, FALSE, <<>>, <<>>, "")

(***************************************************************************)
(* The class statements of the scenarios, before any decorator runs.       *)
(***************************************************************************)
Scenarios == {"caching", "quick_start", "quick_start_disabled", "selective",
              "multiple_decorators", "stacked", "order",
              "private", "private_untyped", "private_object",
              "overlap", "fallback", "unsatisfied", "incompatible", "inheritance",
              "side_effects", "missing_attribute",
              "wiring", "best_effort", "reentrant", "dependency_map", "probe",
              "two_owners"}

Classes == {"MyService", "DevModule", "ProdModule",
            "DatabaseConfig", "DatabaseService", "AppModule",
            "SelectiveTrackedConfig", "SelectiveController",
            "Config", "API", "multiple_decorators.AppModule", "ResourceController",
            "TrackedConfig", "TrackedModule", "TrackedController",
            "Controller1", "Controller2",
            "OverlapConfig", "OverlapModule", "OverlapController",
            "FallbackConfig", "FallbackModule", "FallbackController",
            "Parent", "Left", "Right", "Diamond", "Unresolved", "Mid", "Leaf",
            "ConnectionConfig", "ConnectionManager", "ConnectionApp", "Provider", "ReverseApp",
            "ConfigWithPrivate", "TypedOwner", "UntypedOwner", "ObjectOwner",
            "RequiresArgs", "UnsatisfiedModule", "GreedyModule",
            "ConfigWithLimitedAttrs", "missing_attribute.TestController",
            "WiringService", "WiringModule", "BestEffortService", "BestEffortModule",
            "Dep", "Owner", "MapService", "MapModule",
            "AuditedConfig", "ProbeController", "SharedService", "OwnerA", "OwnerB",
            "ConfigType", "ControllerForLine88", "MockConfigType", "TestController"}

ClassDef(c) ==
    CASE c = "MyService" ->
           ClassStmt(<<c>>, <<>>, TRUE, NoMembers, TRUE, <<>>, <<FromId("instance_id")>>, "")
      [] c = "DevModule" -> Plain(c, <<Hint("service", "MyService")>>, NoMembers)
      [] c = "ProdModule" -> Plain(c, <<Hint("service", "MyService")>>, NoMembers)
      [] c = "DatabaseConfig" ->
           Plain(c, <<>>, [x \in {"host", "port", "timeout"} |->
                             Value(Prim(CASE x = "host" -> 1 [] x = "port" -> 5432 [] OTHER -> 30))])
      [] c = "DatabaseService" ->
           Plain(c, <<Hint("_config", "DatabaseConfig"), Hint("_host", "str"),
                      Hint("_port", "int"), Hint("_timeout", "int")>>, NoMembers)
      [] c = "AppModule" ->
           Plain(c, <<Hint("config", "DatabaseConfig"), Hint("database", "DatabaseService")>>, NoMembers)
      [] c = "SelectiveTrackedConfig" ->
           Plain(c, <<>>, [x \in {"timeout", "is_dry_run"} |->
                             IF x = "timeout" THEN Property("timeout", "", Prim(300))
                             ELSE Property("is_dry_run", "", Prim(1))])
      [] c = "SelectiveController" ->
           ClassStmt(<<c>>, <<Hint("_timeout", "int"), Hint("_is_dry_run", "bool")>>, TRUE, NoMembers,
                     TRUE, <<Hint("config", "None")>>, <<FromParam("config", 1)>>, "")
      [] c = "Config" ->
           ClassStmt(<<c>>, <<>>, TRUE, NoMembers, TRUE, <<>>,
                     <<FromConst("timeout", 30), FromConst("is_dry_run", 0)>>, "")
      [] c = "API" ->
           ClassStmt(<<c>>, <<>>, TRUE, NoMembers, TRUE, <<>>, <<FromConst("name", 7)>>, "")
      [] c = "multiple_decorators.AppModule" ->
           ClassStmt(<<c>>, <<>>, TRUE, NoMembers, TRUE, <<>>,
                     <<FromNew("config", "Config"), FromNew("api", "API"), FromConst("namespace", 2)>>, "")
      [] c = "ResourceController" ->
           ClassStmt(<<c>>, <<Hint("_timeout", "int"), Hint("_is_dry_run", "bool"),
                             Hint("_api", "object"), Hint("_namespace", "str")>>, TRUE, NoMembers,
                     TRUE, <<Hint("module", "None")>>, <<FromParam("_module", 1)>>, "")
      [] c = "TrackedConfig" ->
           Plain(c, <<>>, [x \in {"timeout"} |-> Property("config.timeout", "", Prim(300))])
      [] c = "TrackedModule" ->
           ClassStmt(<<c>>, <<>>, TRUE,
                     [x \in {"config"} |-> Property("module.config", "_config", NoneVal)],
                     TRUE, <<Hint("config", "None")>>, <<FromParam("_config", 1)>>, "")
      [] c = "TrackedController" ->
           ClassStmt(<<c>>, <<Hint("_config", "TrackedConfig"), Hint("_timeout", "int")>>, TRUE, NoMembers,
                     TRUE, <<Hint("module", "TrackedModule")>>, <<FromParam("_module", 1)>>, "")
      [] c \in {"Controller1", "Controller2"} ->
           ClassStmt(<<c>>, <<Hint("_timeout", "int"), Hint("_is_dry_run", "bool"),
                             Hint("_api", "object"), Hint("_namespace", "str")>>, TRUE, NoMembers,
                     TRUE, <<Hint("module", "None")>>, <<FromParam("_module", 1)>>, "")
      [] c = "OverlapConfig" -> Plain(c, <<>>, [x \in {"timeout"} |-> Value(Prim(30))])
      [] c = "OverlapModule" -> Plain(c, <<>>, [x \in {"timeout"} |-> Value(Prim(99))])
      [] c = "OverlapController" ->
           ClassStmt(<<c>>, <<Hint("_module", "OverlapModule"), Hint("_config", "OverlapConfig"),
                             Hint("_timeout", "int")>>, TRUE, NoMembers, TRUE, <<>>,
                     <<FromNew("_module", "OverlapModule"), FromNew("_config", "OverlapConfig")>>, "")
      [] c = "FallbackConfig" ->
           ClassStmt(<<c>>, <<>>, TRUE, NoMembers, TRUE, <<>>, <<FromConst("timeout", 30)>>, "")
      [] c = "FallbackModule" ->
           ClassStmt(<<c>>, <<>>, TRUE, NoMembers, TRUE, <<>>, <<FromConst("namespace", 2)>>, "")
      [] c = "FallbackController" ->
           ClassStmt(<<c>>, <<Hint("_timeout", "int"), Hint("_namespace", "int")>>, TRUE, NoMembers,
                     TRUE, <<>>,
                     <<FromNew("_module", "FallbackModule"), FromNew("_config", "FallbackConfig")>>, "")
      [] c = "Parent" -> Plain(c, <<Hint("service", "Config"), Hint("timeout", "int")>>, NoMembers)
      [] c = "Left" -> ClassStmt(<<c, "Parent">>, <<>>, TRUE, NoMembers, FALSE, <<>>, <<>>, "")
      [] c = "Right" ->
           ClassStmt(<<c, "Parent">>, <<Hint("service", "API")>>, TRUE, NoMembers, FALSE, <<>>, <<>>, "")
      [] c = "Diamond" ->
           ClassStmt(<<c, "Left", "Right", "Parent">>, <<Hint("extra", "int")>>, TRUE, NoMembers,
                     FALSE, <<>>, <<>>, "")
      [] c = "Unresolved" ->
           ClassStmt(<<c, "Parent">>, <<Hint("service", "API"), Hint("ghost", "'UndefinedClass'")>>,
                     FALSE, NoMembers, FALSE, <<>>, <<>>, "")
      [] c = "Mid" ->
           ClassStmt(<<c, "Parent">>, <<Hint("ghost", "'UndefinedClass'")>>,
                     FALSE, NoMembers, FALSE, <<>>, <<>>, "")
      [] c = "Leaf" ->
           ClassStmt(<<c, "Mid", "Parent">>, <<Hint("service", "API"), Hint("helper", "API")>>,
                     TRUE, NoMembers, FALSE, <<>>, <<>>, "")
      [] c = "ConnectionConfig" ->
           Plain(c, <<>>, [x \in {"url"} |-> CachedProperty("config.url", "", Prim(9))])
      [] c = "ConnectionManager" ->
           ClassStmt(<<c>>, <<Hint("_config", "ConnectionConfig"), Hint("_url", "str")>>, TRUE, NoMembers,
                     TRUE, <<>>, <<FromConst("connections", 0)>>, "")
      [] c = "ConnectionApp" ->
           Plain(c, <<Hint("config", "ConnectionConfig"), Hint("manager", "ConnectionManager"),
                      Hint("connections", "int")>>, NoMembers)
      [] c = "Provider" ->
           ClassStmt(<<c>>, <<>>, TRUE, NoMembers, TRUE, <<>>, <<FromConst("dependency", 5)>>, "")
      [] c = "ReverseApp" ->
           Plain(c, <<Hint("provider", "Provider"), Hint("dependency", "object")>>, NoMembers)
      [] c = "ConfigWithPrivate" ->
           Plain(c, <<>>, [x \in {"public_attr", "_private_attr"} |->
                             Value(Prim(IF x = "public_attr" THEN 11 ELSE 12))])
      [] c = "TypedOwner" ->
           ClassStmt(<<c>>, <<Hint("config", "ConfigWithPrivate"), Hint("cfg_public_attr", "str"),
                             Hint("cfg__private_attr", "str")>>, TRUE, NoMembers,
                     TRUE, <<>>, <<FromNew("config", "ConfigWithPrivate")>>, "")
      [] c = "UntypedOwner" ->
           ClassStmt(<<c>>, <<Hint("cfg_public_attr", "str"), Hint("cfg__private_attr", "str")>>, TRUE,
                     NoMembers, TRUE, <<Hint("config", "None")>>, <<FromParam("config", 1)>>, "")
      [] c = "ObjectOwner" ->
           ClassStmt(<<c>>, <<Hint("config", "object"), Hint("cfg_public_attr", "str"),
                             Hint("cfg__private_attr", "str")>>, TRUE, NoMembers,
                     TRUE, <<>>, <<FromNew("config", "ConfigWithPrivate")>>, "")
      [] c = "RequiresArgs" ->
           ClassStmt(<<c>>, <<>>, TRUE, NoMembers, TRUE, <<Hint("value", "int")>>,
                     <<FromParam("value", 1)>>, "")
      [] c = "UnsatisfiedModule" ->
           Plain(c, <<Hint("config", "DatabaseConfig"), Hint("dependency", "RequiresArgs")>>, NoMembers)
      [] c = "GreedyModule" ->
           Plain(c, <<Hint("config", "DatabaseConfig"), Hint("timeout", "int"),
                      Hint("dependency", "Any"), Hint("database", "DatabaseConfig")>>, NoMembers)
      [] c = "ConfigWithLimitedAttrs" -> Plain(c, <<>>, [x \in {"existing_attr"} |-> Value(Prim(21))])
      [] c = "missing_attribute.TestController" ->
           ClassStmt(<<c>>, <<Hint("config", "ConfigWithLimitedAttrs"), Hint("_existing_attr", "str"),
                             Hint("_missing_attr", "str")>>, TRUE, NoMembers,
                     TRUE, <<>>, <<FromNew("config", "ConfigWithLimitedAttrs")>>, "")
      [] c = "WiringService" ->
           Plain(c, <<Hint("_dependency", "RequiresArgs"), Hint("_timeout", "int"),
                      Hint("_config", "Config")>>, NoMembers)
      [] c = "WiringModule" ->
           Plain(c, <<Hint("dependency", "RequiresArgs"), Hint("timeout", "int"),
                      Hint("config", "Config"), Hint("service", "WiringService")>>, NoMembers)
      [] c = "BestEffortService" ->
           Plain(c, <<Hint("_timeout", "int"), Hint("_config", "Config")>>,
                 [x \in {"version"} |-> Value(Prim(3))])
      [] c = "BestEffortModule" ->
           Plain(c, <<Hint("timeout", "int"), Hint("config", "Config"),
                      Hint("service", "BestEffortService")>>, NoMembers)
      [] c = "Dep" -> Plain(c, <<Hint("timeout", "int")>>, NoMembers)
      [] c = "Owner" ->
           (* timeout is a hand-written property returning self.service.timeout *)
           Plain(c, <<Hint("service", "Dep"), Hint("timeout", "int")>>,
                 [x \in {"timeout"} |-> Forwarding("service", "timeout")])
      [] c = "MapService" ->
           Plain(c, <<Hint("_config", "Config"), Hint("_timeout", "int"), Hint("other", "int"),
                      Hint("version", "int")>>, [x \in {"version"} |-> Value(Prim(3))])
      [] c = "MapModule" ->
           Plain(c, <<Hint("_config", "Config"), Hint("config", "API"), Hint("timeout", "int"),
                      Hint("version", "int"), Hint("service", "MapService")>>,
                 [x \in {"version"} |-> Value(Prim(9))])
      [] c = "AuditedConfig" ->
           ClassStmt(<<c>>, <<>>, TRUE, NoMembers, TRUE, <<>>, <<FromConst("timeout", 30)>>,
                     "AuditedConfig()")
      [] c = "ProbeController" ->
           ClassStmt(<<c>>, <<Hint("config", "AuditedConfig"), Hint("_timeout", "int"),
                             Hint("_missing", "int")>>, TRUE, NoMembers,
                     TRUE, <<>>, <<FromNew("config", "AuditedConfig")>>, "")
      [] c = "SharedService" ->
           Plain(c, <<Hint("_config", "Config"), Hint("_api", "API")>>, NoMembers)
      [] c = "OwnerA" ->
           Plain(c, <<Hint("config", "Config"), Hint("service", "SharedService")>>, NoMembers)
      [] c = "OwnerB" ->
           Plain(c, <<Hint("api", "API"), Hint("service", "SharedService")>>, NoMembers)
      [] c = "ConfigType" ->
           Plain(c, <<Hint("timeout", "int")>>, [x \in {"timeout"} |-> Value(Prim(300))])
      [] c = "ControllerForLine88" ->
           ClassStmt(<<c>>, <<Hint("config", "ConfigType"), Hint("_timeout", "int")>>, TRUE, NoMembers,
                     TRUE, <<>>, <<FromNew("config", "ConfigType")>>, "")
      [] c = "MockConfigType" ->
           Plain(c, <<Hint("timeout", "int")>>, [x \in {"timeout"} |-> Value(Prim(300))])
      [] c = "TestController" ->
           ClassStmt(<<c>>, <<Hint("_timeout", "str"), Hint("config", "MockConfigType")>>, TRUE, NoMembers,
                     TRUE, <<>>, <<FromNew("config", "MockConfigType")>>, "")

(***************************************************************************)
(* Sequence helpers                                                        *)
(***************************************************************************)
Range(s) == {s[i] : i \in 1..Len(s)}

Reverse(s) == [i \in 1..Len(s) |-> s[Len(s) + 1 - i]]

StartsWith(name, prefix) ==
    /\ Len(name) >= Len(prefix)
    /\ SubSeq(name, 1, Len(prefix)) = prefix

(* name[len(prefix):] *)
StripPrefix(name, prefix) == SubSeq(name, Len(prefix) + 1, Len(name))

(***************************************************************************)
(* Ordered dictionaries of type hints (name -> declared type)              *)
(***************************************************************************)
HintNames(h) == {h[i].n : i \in 1..Len(h)}

(* dict.get(name): the declared type, or "None" *)
HintGet(h, name) ==
    IF name \in HintNames(h)
    THEN h[CHOOSE i \in 1..Len(h) : h[i].n = name].t
    ELSE "None"

(* dict[name] = ty: an existing key keeps its position *)
HintPut(h, name, ty) ==
    IF name \in HintNames(h)
    THEN [i \in 1..Len(h) |-> IF h[i].n = name THEN Hint(name, ty) ELSE h[i]]
    ELSE Append(h, Hint(name, ty))

RECURSIVE HintUpdate(_, _)
HintUpdate(h, g) ==
    IF g = <<>> THEN h ELSE HintUpdate(HintPut(h, Head(g).n, Head(g).t), Tail(g))

(***************************************************************************)
(* type_utils.py                                                           *)
(***************************************************************************)
PrimitiveTypes == {"int", "float", "str", "bool", "bytes", "complex"}
BuiltinContainerTypes == {"list", "dict", "tuple", "set", "frozenset"}
GenericTypes == {"List", "List[int]"}
ForwardRefs == {"'UndefinedService'", "'UndefinedClass'"}

(* inspect.isclass *)
IsClass(ty) == ty \in Classes \cup PrimitiveTypes \cup BuiltinContainerTypes \cup {"object"}

(* cls.__mro__, object left out *)
Mro(c) == classTable[c].mro

(* issubclass(a, e), for two classes *)
IsSubclass(a, e) ==
    \/ a = e
    \/ e = "object"
    \/ a = "bool" /\ e = "int"
    \/ a \in Classes /\ e \in Range(Mro(a))

(* typing.get_type_hints(cls): the annotations of the whole ancestry, base
   first; one unresolvable annotation anywhere in it raises NameError. *)
RECURSIVE MergeAnnotations(_)
MergeAnnotations(classes) ==
    IF classes = <<>> THEN <<>>
    ELSE HintUpdate(MergeAnnotations(Tail(classes)), classTable[Head(classes)].ann)

get_type_hints(c) ==
    IF \A k \in Range(Mro(c)) : classTable[k].resolvable
    THEN [ok |-> TRUE, hints |-> MergeAnnotations(Mro(c))]
    ELSE [ok |-> FALSE, hints |-> <<>>]

(* all_hints.update(base_hints), unless get_type_hints(base) raised *)
UpdateAllHints(all_hints, r) == IF r.ok THEN HintUpdate(all_hints, r.hints) ELSE all_hints

RECURSIVE CollectHints(_, _)
CollectHints(bases, all_hints) ==
    IF bases = <<>> THEN all_hints
    ELSE CollectHints(Tail(bases), UpdateAllHints(all_hints, get_type_hints(Head(bases))))

(* get_all_type_hints traversing the ancestry most-derived first *)
get_all_type_hints_forward(c) ==
    IF c \in Classes THEN CollectHints(Mro(c), <<>>) ELSE <<>>

get_all_type_hints(c) ==
    IF c \in Classes THEN CollectHints(Reverse(Mro(c)), <<>>) ELSE <<>>

(* the raw __annotations__ of a class: its own annotations, unresolved *)
RawAnnotations(c) == classTable[c].ann

HintsOrRaw(r, c) == IF r.ok THEN r.hints ELSE RawAnnotations(c)

safe_get_type_hints(c) ==
    IF c \notin Classes THEN <<>> ELSE HintsOrRaw(get_type_hints(c), c)

(* hasattr(cls, name) on a class object *)
ClassHasAttr(attrs, c, name) ==
    c \in Classes /\ \E k \in Range(Mro(c)) : name \in DOMAIN attrs[k]

(* getattr(cls, name, Absent) on a class object: the first class of the
   ancestry m that has the name decides *)
FirstWithAttr(attrs, m, name) ==
    CHOOSE i \in 1..Len(m) :
        /\ name \in DOMAIN attrs[m[i]]
        /\ \A j \in 1..(i - 1) : name \notin DOMAIN attrs[m[j]]

ClassGetAttr(attrs, c, name) ==
    IF ClassHasAttr(attrs, c, name)
    THEN attrs[Mro(c)[FirstWithAttr(attrs, Mro(c), name)]][name]
    ELSE Absent

IsPlaceholder(attr, attr_name) == attr.kind = "class" /\ attr.label = attr_name

(* a needs_implementation that ignores what the class already has *)
needs_implementation_always(attrs, c, attr_name) == TRUE

needs_implementation(attrs, c, attr_name) ==
    \A base \in Range(Mro(c)) :
        ClassHasAttr(attrs, base, attr_name) =>
            IsPlaceholder(ClassGetAttr(attrs, base, attr_name), attr_name)

(* a compatibility check whose inheritance test runs in the other direction *)
is_type_compatible_reversed(expected_type, actual_type) ==
    IF expected_type = "None" \/ actual_type = "None" THEN TRUE
    ELSE IF expected_type = "Any" \/ actual_type = "Any" THEN TRUE
    ELSE IF expected_type \in ForwardRefs \/ actual_type \in ForwardRefs THEN TRUE
    ELSE IF expected_type = actual_type THEN TRUE
    ELSE IF IsClass(expected_type) /\ IsClass(actual_type)
         THEN IsSubclass(expected_type, actual_type)
    ELSE TRUE

is_type_compatible(expected_type, actual_type) ==
    IF expected_type = "None" \/ actual_type = "None" THEN TRUE
    ELSE IF expected_type = "Any" \/ actual_type = "Any" THEN TRUE
    ELSE IF expected_type \in ForwardRefs \/ actual_type \in ForwardRefs THEN TRUE
    ELSE IF expected_type = actual_type THEN TRUE
    ELSE IF IsClass(expected_type) /\ IsClass(actual_type)
         THEN IsSubclass(actual_type, expected_type)
    ELSE TRUE

(* A call by keyword binds each keyword to the parameter of that name and
   raises TypeError for a keyword the signature does not have. *)
is_type_compatible_params == {"expected_type", "actual_type"}

CallIsTypeCompatible(kwargs) ==
    IF DOMAIN kwargs = is_type_compatible_params
    THEN [raised |-> FALSE,
          result |-> is_type_compatible(kwargs["expected_type"], kwargs["actual_type"])]
    ELSE [raised |-> TRUE, result |-> FALSE]

(***************************************************************************)
(* The interpreter state the library code runs on:                         *)
(*   heap   - the instances; each has its class, its __dict__, and the     *)
(*            three entries the factory keeps in __dict__: _parent_instance*)
(*            (parent), _dependency_map (depmap) and _setup_dependencies   *)
(*            (setup: the pending callable is present)                     *)
(*   attrs  - the __dict__ of every class (descriptors and values)         *)
(*   hooks  - per class, the dependency maps closed over by the            *)
(*            patched_getattribute layers installed on it, innermost first *)
(*   log    - the user property evaluations and base-reference reads       *)
(***************************************************************************)
Object(c) == [cls |-> c, dict |-> EmptyDict, parent |-> 0, depmap |-> <<>>, setup |-> FALSE]

Result(st, val) == [st |-> st, ok |-> TRUE, val |-> val, exc |-> ""]
Raise(st, exc) == [st |-> st, ok |-> FALSE, val |-> NoneVal, exc |-> exc]

Event(k, l) == [kind |-> k, label |-> l]
Logged(st, k, l) == [st EXCEPT !.log = Append(@, Event(k, l))]

DataDescriptors == {"prop", "fwd", "factory"}
NonDataDescriptors == {"cprop", "cfactory"}

(* o.__dict__[name] = v *)
DictStore(st, o, name, v) ==
    [st EXCEPT !.heap[o].dict = [x \in DOMAIN @ \cup {name} |-> IF x = name THEN v ELSE @[x]]]

(* object.__setattr__(o, name, v): a property without a setter refuses *)
ObjectSetAttr(st, o, name, v) ==
    IF ClassGetAttr(st.attrs, st.heap[o].cls, name).kind \in DataDescriptors
    THEN Raise(st, "AttributeError")
    ELSE Result(DictStore(st, o, name, v), v)

(* the __init__ an instantiation of c runs: the first one in its ancestry *)
InitClass(c) ==
    IF \E i \in 1..Len(Mro(c)) : classTable[Mro(c)[i]].hasInit
    THEN Mro(c)[CHOOSE i \in 1..Len(Mro(c)) :
                  /\ classTable[Mro(c)[i]].hasInit
                  /\ \A j \in 1..(i - 1) : ~classTable[Mro(c)[j]].hasInit]
    ELSE "object"

InitParams(c) == IF InitClass(c) = "object" THEN <<>> ELSE classTable[InitClass(c)].params
InitBody(c) == IF InitClass(c) = "object" THEN <<>> ELSE classTable[InitClass(c)].body
InitLog(c) == IF InitClass(c) = "object" THEN "" ELSE classTable[InitClass(c)].initLog

(* a dependency map that matches names exactly and ignores the underscore
   prefix pattern *)
RECURSIVE DependencyMap_exact(_, _)
DependencyMap_exact(instance_hints, parent_hints) ==
    IF instance_hints = <<>> THEN <<>>
    ELSE IF Head(instance_hints).n \in HintNames(parent_hints)
    THEN <<Hint(Head(instance_hints).n, Head(instance_hints).n)>>
             \o DependencyMap_exact(Tail(instance_hints), parent_hints)
    ELSE DependencyMap_exact(Tail(instance_hints), parent_hints)

(* a dependency map that tries the name without its leading "_" first *)
RECURSIVE DependencyMap_stripped_first(_, _)
DependencyMap_stripped_first(instance_hints, parent_hints) ==
    IF instance_hints = <<>> THEN <<>>
    ELSE IF /\ StartsWith(Head(instance_hints).n, "_")
            /\ StripPrefix(Head(instance_hints).n, "_") \in HintNames(parent_hints)
    THEN <<Hint(Head(instance_hints).n, StripPrefix(Head(instance_hints).n, "_"))>>
             \o DependencyMap_stripped_first(Tail(instance_hints), parent_hints)
    ELSE IF Head(instance_hints).n \in HintNames(parent_hints)
    THEN <<Hint(Head(instance_hints).n, Head(instance_hints).n)>>
             \o DependencyMap_stripped_first(Tail(instance_hints), parent_hints)
    ELSE DependencyMap_stripped_first(Tail(instance_hints), parent_hints)

(* the dependency map the factory computes, in the order of instance_hints *)
RECURSIVE DependencyMap(_, _)
DependencyMap(instance_hints, parent_hints) ==
    IF instance_hints = <<>> THEN <<>>
    ELSE IF Head(instance_hints).n \in HintNames(parent_hints)
    THEN <<Hint(Head(instance_hints).n, Head(instance_hints).n)>>
             \o DependencyMap(Tail(instance_hints), parent_hints)
    ELSE IF /\ StartsWith(Head(instance_hints).n, "_")
            /\ StripPrefix(Head(instance_hints).n, "_") \in HintNames(parent_hints)
    THEN <<Hint(Head(instance_hints).n, StripPrefix(Head(instance_hints).n, "_"))>>
             \o DependencyMap(Tail(instance_hints), parent_hints)
    ELSE DependencyMap(Tail(instance_hints), parent_hints)

(* type(o).__getattribute__: the layers of the first class of the ancestry
   that carries any *)
HookChain(hooks, c) ==
    IF \E i \in 1..Len(Mro(c)) : hooks[Mro(c)[i]] # <<>>
    THEN hooks[Mro(c)[CHOOSE i \in 1..Len(Mro(c)) :
                        /\ hooks[Mro(c)[i]] # <<>>
                        /\ \A j \in 1..(i - 1) : hooks[Mro(c)[j]] = <<>>]]
    ELSE <<>>

RECURSIVE GetAttr(_, _, _, _)
RECURSIVE Construct(_, _, _, _)
RECURSIVE RunInit(_, _, _, _, _)

(* the right-hand side of one statement of a constructor body *)
StmtValue(st, o, stmt, args, d) ==
    IF stmt.src = "param" THEN Result(st, args[stmt.n])
    ELSE IF stmt.src = "const" THEN Result(st, Prim(stmt.n))
    ELSE IF stmt.src = "id" THEN Result(st, Prim(o))
    ELSE Construct(st, stmt.cls, <<>>, d - 1)

(* the rest of the body once the assignment w of its first statement ran *)
AfterAssign(w, o, body, args, d) ==
    IF w.ok THEN RunInit(w.st, o, Tail(body), args, d) ELSE w

(* self.<attr> = v, for the value v of the first statement of body *)
Assign(v, o, body, args, d) ==
    IF v.ok
    THEN AfterAssign(ObjectSetAttr(v.st, o, Head(body).attr, v.val), o, body, args, d)
    ELSE v

(* the statements of the constructor body *)
RunInit(st, o, body, args, d) ==
    IF body = <<>> THEN Result(st, NoneVal)
    ELSE Assign(StmtValue(st, o, Head(body), args, d), o, body, args, d)

(* object.__new__(c), and the side effect the constructor body starts with *)
Allocate(st, c) ==
    IF InitLog(c) # ""
    THEN Logged([st EXCEPT !.heap = Append(@, Object(c))], "init", InitLog(c))
    ELSE [st EXCEPT !.heap = Append(@, Object(c))]

(* an instantiation that resolves a forwarded slot of the new instance
   before it returns *)
Constructed_resolving(r, o) ==
    IF ~r.ok THEN r
    ELSE IF \E n \in DOMAIN r.st.attrs[r.st.heap[o].cls] :
                r.st.attrs[r.st.heap[o].cls][n].kind = "fwd"
    THEN Result(GetAttr(r.st, o,
                        CHOOSE n \in DOMAIN r.st.attrs[r.st.heap[o].cls] :
                            r.st.attrs[r.st.heap[o].cls][n].kind = "fwd",
                        MaxDepth).st,
                Ref(o))
    ELSE Result(r.st, Ref(o))

(* the value of the instantiation once __init__ returned r *)
Constructed(r, o) == IF r.ok THEN Result(r.st, Ref(o)) ELSE r

(* instantiating class c with args: allocate, then run __init__ *)
Construct(st, c, args, d) ==
    IF d = 0 THEN Raise(st, "RecursionError")
    ELSE IF c \notin Classes \/ Len(args) # Len(InitParams(c)) THEN Raise(st, "TypeError")
    ELSE Constructed(RunInit(Allocate(st, c), Len(st.heap) + 1, InitBody(c), args, d),
                     Len(st.heap) + 1)

(* the factory stores the map and the setup closure on the instance and
   patches the class, unless the map is empty *)
StoreDependencies(st, instance, attr_type, dependency_map) ==
    IF dependency_map = <<>> THEN Result(st, Ref(instance))
    ELSE Result([st EXCEPT !.heap[instance].depmap = dependency_map,
                           !.heap[instance].setup = TRUE,
                           !.hooks[attr_type] =
                               Append(HookChain(st.hooks, attr_type), dependency_map)],
                Ref(instance))

(* the factory after attr_type() returned c *)
Wire(c, self_instance, attr_name, attr_type) ==
    IF ~c.ok THEN Raise(c.st, "TypeError: Failed to create")
    ELSE StoreDependencies(
             [c.st EXCEPT !.heap[c.val.v].parent = self_instance],
             c.val.v, attr_type,
             DependencyMap(get_all_type_hints(attr_type),
                           get_all_type_hints(c.st.heap[self_instance].cls)))

(* the factory function behind a synthesized module slot *)
factory(st, self_instance, attr_name, attr_type, d) ==
    Wire(Construct(st, attr_type, <<>>, d - 1), self_instance, attr_name, attr_type)

(* cached_property.__get__ stores the value r in o.__dict__ *)
Cache(r, o, name) ==
    IF r.ok THEN Result(DictStore(r.st, o, name, r.val), r.val) ELSE r

(* getattr(base_obj, attr_name), for the result b of reading the base *)
Forward(b, attr_name, d) ==
    IF ~b.ok THEN b
    ELSE IF b.val.t # "ref" THEN Raise(b.st, "AttributeError")
    ELSE GetAttr(b.st, b.val.v, attr_name, d - 1)

(* a getter that keeps the first value it forwarded in the instance *)
getter_memo(st, o, base_ref, attr_name, d) ==
    IF ("cache:" \o attr_name) \in DOMAIN st.heap[o].dict
    THEN Result(st, st.heap[o].dict["cache:" \o attr_name])
    ELSE Cache(Forward(GetAttr(Logged(st, "base", base_ref), o, base_ref, d - 1), attr_name, d),
               o, "cache:" \o attr_name)

(* a getter that reads the base reference once to test it and once to use it *)
getter_twice(st, o, base_ref, attr_name, d) ==
    Forward(GetAttr(GetAttr(Logged(st, "base", base_ref), o, base_ref, d - 1).st,
                    o, base_ref, d - 1),
            attr_name, d)

(* the getter of a forwarding property *)
getter(st, o, base_ref, attr_name, d) ==
    Forward(GetAttr(Logged(st, "base", base_ref), o, base_ref, d - 1), attr_name, d)

(* the function behind a property or cached_property of o's class *)
(* the event of evaluating a user property: a cached_property is evaluated
   on the first read only, a property on every read *)
CallEvent(desc) == IF desc.kind = "prop" THEN "call" ELSE "cached_call"

CallDescriptor(st, o, desc, d) ==
    IF desc.kind \in {"prop", "cprop"}
    THEN IF desc.ret = "" THEN Result(Logged(st, CallEvent(desc), desc.label), desc.val)
         ELSE GetAttr(Logged(st, CallEvent(desc), desc.label), o, desc.ret, d - 1)
    ELSE IF desc.kind = "fwd"
    THEN getter(st, o, desc.base, desc.target, d)
    ELSE factory(st, o, desc.label, desc.type, d)

(* object.__getattribute__(o, name), desc being what type(o) has for name *)
Lookup(st, o, name, desc, d) ==
    IF desc.kind \in DataDescriptors THEN CallDescriptor(st, o, desc, d)
    ELSE IF name \in DOMAIN st.heap[o].dict THEN Result(st, st.heap[o].dict[name])
    ELSE IF desc.kind \in NonDataDescriptors THEN Cache(CallDescriptor(st, o, desc, d), o, name)
    ELSE IF desc.kind # "absent" THEN Result(st, desc.val)
    ELSE Raise(st, "AttributeError")

ObjectGetAttribute(st, o, name, d) ==
    Lookup(st, o, name, ClassGetAttr(st.attrs, st.heap[o].cls, name), d)

RECURSIVE setup_dependencies(_, _, _, _)

(* setattr(instance, dep_name, r) for the value r read from the parent; an
   AttributeError of the read or of the assignment is swallowed *)
SetDependency(r, o, deps, d) ==
    IF r.ok
    THEN setup_dependencies(ObjectSetAttr(r.st, o, Head(deps).n, r.val).st, o, Tail(deps), d)
    ELSE IF r.exc = "AttributeError"
    THEN setup_dependencies(r.st, o, Tail(deps), d)
    ELSE r

(* the closure stored as _setup_dependencies on instance o; deps is what is
   left of dependency_map.items() *)
setup_dependencies(st, o, deps, d) ==
    IF deps = <<>> THEN Result(st, NoneVal)
    ELSE SetDependency(GetAttr(st, st.heap[o].parent, Head(deps).t, d - 1), o, deps, d)

RECURSIVE patched_getattribute(_, _, _, _, _)

(* after the setup closure returned r: delete it from __dict__ and go on
   to the original __getattribute__; KeyError and AttributeError pass *)
AfterSetup(r, o, name, i, d) ==
    IF r.ok
    THEN patched_getattribute([r.st EXCEPT !.heap[o].setup = FALSE], o, name, i - 1, d)
    ELSE IF r.exc \in {"KeyError", "AttributeError"}
    THEN patched_getattribute(r.st, o, name, i - 1, d)
    ELSE r

(* layer i of the __getattribute__ chain of o's class; layer 0 is
   object.__getattribute__ *)
patched_getattribute(st, o, name, i, d) ==
    IF i = 0 THEN ObjectGetAttribute(st, o, name, d)
    ELSE IF /\ name \in HintNames(HookChain(st.hooks, st.heap[o].cls)[i])
            /\ st.heap[o].setup
    THEN AfterSetup(setup_dependencies(Logged(st, "setup", st.heap[o].cls), o, st.heap[o].depmap, d),
                    o, name, i, d)
    ELSE patched_getattribute(st, o, name, i - 1, d)

(* getattr(o, name) *)
GetAttr(st, o, name, d) ==
    IF d = 0 THEN Raise(st, "RecursionError")
    ELSE patched_getattribute(st, o, name, Len(HookChain(st.hooks, st.heap[o].cls)), d)

(***************************************************************************)
(* law_of_demeter.py                                                       *)
(***************************************************************************)
(* typing.get_type_hints(cls.__init__): the annotated parameters; an
   unresolvable parameter annotation raises NameError *)
InitAnnotations(c) ==
    IF \E i \in 1..Len(InitParams(c)) : InitParams(c)[i].t \in ForwardRefs
    THEN [ok |-> FALSE, hints |-> <<>>]
    ELSE [ok |-> TRUE, hints |-> SelectSeq(InitParams(c), LAMBDA h : h.t # "None")]

(* the names X for which the source text of the constructor matches
   \bself\.X\b *)
InitSourceMentions(c) ==
    IF c \notin Classes THEN {}
    ELSE {InitBody(c)[i].attr : i \in 1..Len(InitBody(c))}

(* a lookup among the constructor's parameter annotations that matches the
   exact name only *)
ConstructorParamType_exact(init_annotations, base_ref) ==
    IF ~init_annotations.ok THEN "None"
    ELSE HintGet(init_annotations.hints, base_ref)

(* the type found among the constructor's parameter annotations *)
ConstructorParamType(init_annotations, base_ref) ==
    IF ~init_annotations.ok THEN "None"
    ELSE IF base_ref \in HintNames(init_annotations.hints)
    THEN HintGet(init_annotations.hints, base_ref)
    ELSE IF StartsWith(base_ref, "_")
    THEN HintGet(init_annotations.hints, StripPrefix(base_ref, "_"))
    ELSE "None"

(* the type the analyzer finds for the base reference, or "None" *)
BaseRefType(cls, base_ref) ==
    IF base_ref \in HintNames(get_all_type_hints(cls))
    THEN HintGet(get_all_type_hints(cls), base_ref)
    ELSE ConstructorParamType(InitAnnotations(cls), base_ref)

Verdict(st, res) == [st |-> st, res |-> res]

(* the test instance, and what its constructor allocated, is unreachable
   once the analyzer returns: the heap is back to its first n objects *)
Release(st, n) == [st EXCEPT !.heap = SubSeq(@, 1, n)]

(* hasattr(test_instance, target_attr_name), p being the result of the read *)
Probed(p, n) == Verdict(Release(p.st, n), IF p.ok THEN "True" ELSE "False")

(* the fallback that instantiates the target type without arguments *)
Probe(test_instance, target_attr_name, n) ==
    IF ~test_instance.ok THEN Verdict(Release(test_instance.st, n), "False")
    ELSE Probed(GetAttr(test_instance.st, test_instance.val.v, target_attr_name, MaxDepth), n)

(* the type validation: check is the outcome of the call of is_type_compatible *)
Validate(st, check) ==
    IF check.raised THEN Verdict(st, "TypeError: unexpected keyword argument")
    ELSE IF ~check.result THEN Verdict(st, "TypeError: types incompatible")
    ELSE Verdict(st, "True")

(* the analyzer from the point where the target type is known;
   returns "True", "False" or the exception it raises *)
ResolveOnType(st, target_type, target_attr_name, source_type, target_annotations) ==
    IF target_type = "None" THEN Verdict(st, "True")
    ELSE IF target_type = "object" THEN Verdict(st, "True")
    ELSE IF StartsWith(target_attr_name, "_") THEN Verdict(st, "False")
    ELSE IF ~(\/ ClassHasAttr(st.attrs, target_type, target_attr_name)
              \/ target_attr_name \in HintNames(target_annotations))
    THEN IF target_attr_name \in InitSourceMentions(target_type) THEN Verdict(st, "True")
         ELSE Probe(Construct(st, target_type, <<>>, MaxDepth), target_attr_name, Len(st.heap))
    ELSE IF target_attr_name \in HintNames(target_annotations)
    THEN Validate(st, CallIsTypeCompatible(
                          [k \in {"provided_type", "required_type"} |->
                             IF k = "provided_type"
                             THEN HintGet(target_annotations, target_attr_name)
                             ELSE source_type]))
    ELSE Verdict(st, "True")

AnalyzeTarget(st, target_type, target_attr_name, source_type) ==
    ResolveOnType(st, target_type, target_attr_name, source_type,
                  safe_get_type_hints(target_type))

can_resolve_annotation(st, cls, base_ref, target_attr_name, source_type) ==
    AnalyzeTarget(st, BaseRefType(cls, base_ref), target_attr_name, source_type)

should_handle_annotation(annotated_name, prefix) ==
    IF prefix = "" THEN ~StartsWith(annotated_name, "_")
    ELSE StartsWith(annotated_name, prefix)

create_forwarding_property(base_ref, attr_name) == Forwarding(base_ref, attr_name)

(* setattr(cls, name, descriptor) *)
ClassSetAttr(st, cls, name, desc) ==
    [st EXCEPT !.attrs[cls] = [x \in DOMAIN @ \cup {name} |-> IF x = name THEN desc ELSE @[x]]]

Decorated(st, err) == [st |-> st, err |-> err]

RECURSIVE decorator(_, _, _, _, _)

(* the body of the loop once the analyzer has returned verdict for the
   first of annotations *)
Install(verdict, cls, base_ref, prefix, annotations) ==
    IF verdict.res = "False"
    THEN decorator(verdict.st, cls, base_ref, prefix, Tail(annotations))
    ELSE IF verdict.res # "True"
    THEN Decorated(verdict.st, verdict.res)
    ELSE decorator(ClassSetAttr(verdict.st, cls, Head(annotations).n,
                                create_forwarding_property(
                                    base_ref, StripPrefix(Head(annotations).n, prefix))),
                   cls, base_ref, prefix, Tail(annotations))

(* the loop of law_of_demeter's decorator over what is left of
   annotations.items() *)
decorator(st, cls, base_ref, prefix, annotations) ==
    IF annotations = <<>> THEN Decorated(st, "")
    ELSE IF \/ ~should_handle_annotation(Head(annotations).n, prefix)
            \/ ~needs_implementation(st.attrs, cls, Head(annotations).n)
            \/ Head(annotations).n = base_ref
    THEN decorator(st, cls, base_ref, prefix, Tail(annotations))
    ELSE Install(can_resolve_annotation(st, cls, base_ref,
                                        StripPrefix(Head(annotations).n, prefix),
                                        Head(annotations).t),
                 cls, base_ref, prefix, annotations)

law_of_demeter(st, cls, base_ref, prefix) ==
    decorator(st, cls, base_ref, prefix, get_all_type_hints(cls))

(***************************************************************************)
(* module.py                                                               *)
(***************************************************************************)
can_create_type(attr_type) ==
    IF attr_type = "None" \/ attr_type = "Any" THEN FALSE
    ELSE IF attr_type \in ForwardRefs THEN FALSE
    ELSE IF attr_type \in PrimitiveTypes THEN FALSE
    ELSE IF attr_type \in BuiltinContainerTypes THEN FALSE
    ELSE attr_type \in Classes \cup GenericTypes

CachingStrategy == {"DISABLED", "NOT_THREAD_SAFE"}

(* a synthesizer that ignores the strategy and never caches / always caches *)
create_factory_method_uncached(attr_name, attr_type, caching_strategy) ==
    FactoryProperty(attr_name, attr_type)

create_factory_method_cached(attr_name, attr_type, caching_strategy) ==
    FactoryCached(attr_name, attr_type)

create_factory_method(attr_name, attr_type, caching_strategy) ==
    IF caching_strategy = "NOT_THREAD_SAFE" THEN FactoryCached(attr_name, attr_type)
    ELSE FactoryProperty(attr_name, attr_type)

RECURSIVE ApplyModuleLoop(_, _, _, _)
ApplyModuleLoop(st, cls, caching_strategy, hints) ==
    IF hints = <<>> THEN Decorated(st, "")
    ELSE IF \/ ~needs_implementation(st.attrs, cls, Head(hints).n)
            \/ ClassHasAttr(st.attrs, cls, Head(hints).n)
    THEN ApplyModuleLoop(st, cls, caching_strategy, Tail(hints))
    ELSE IF ~can_create_type(Head(hints).t)
    THEN IF Head(hints).t \in PrimitiveTypes \cup BuiltinContainerTypes
         THEN ApplyModuleLoop(st, cls, caching_strategy, Tail(hints))
         ELSE Decorated(st, "TypeError: Unsatisfied dependency")
    ELSE IF caching_strategy \notin CachingStrategy
    THEN Decorated(st, "ValueError: Unsupported caching strategy")
    ELSE ApplyModuleLoop(
             ClassSetAttr(st, cls, Head(hints).n,
                          create_factory_method(Head(hints).n, Head(hints).t, caching_strategy)),
             cls, caching_strategy, Tail(hints))

apply_module_decorator(st, cls, caching_strategy) ==
    ApplyModuleLoop(st, cls, caching_strategy, get_all_type_hints(cls))

(***************************************************************************)
(* The scenarios: the decorators of each class statement in the order      *)
(* Python applies them (the one nearest the class body first), the classes *)
(* the client instantiates, and the attributes it assigns.                 *)
(***************************************************************************)
Module(c, strategy) ==
    [cls |-> c, deco |-> "module", strategy |-> strategy, base_ref |-> "", prefix |-> ""]
LawOfDemeter(c, base_ref, prefix) ==
    [cls |-> c, deco |-> "law_of_demeter", strategy |-> "", base_ref |-> base_ref, prefix |-> prefix]

Program(s) ==
    CASE s = "caching" ->
           <<Module("DevModule", "DISABLED"), Module("ProdModule", "NOT_THREAD_SAFE")>>
      [] s = "quick_start" ->
           <<LawOfDemeter("DatabaseService", "_config", "_"), Module("AppModule", "NOT_THREAD_SAFE")>>
      [] s = "quick_start_disabled" ->
           <<LawOfDemeter("DatabaseService", "_config", "_"), Module("AppModule", "DISABLED")>>
      [] s = "selective" -> <<LawOfDemeter("SelectiveController", "config", "_")>>
      [] s = "multiple_decorators" ->
           <<LawOfDemeter("ResourceController", "_module", "_"),
             LawOfDemeter("ResourceController", "_config", "_")>>
      [] s = "stacked" ->
           <<LawOfDemeter("TrackedController", "_module", "_"),
             LawOfDemeter("TrackedController", "_config", "_")>>
      [] s = "order" ->
           <<LawOfDemeter("Controller1", "_module", "_"), LawOfDemeter("Controller1", "_config", "_"),
             LawOfDemeter("Controller2", "_config", "_"), LawOfDemeter("Controller2", "_module", "_")>>
      [] s = "overlap" ->
           <<LawOfDemeter("OverlapController", "_module", "_"),
             LawOfDemeter("OverlapController", "_config", "_")>>
      [] s = "fallback" ->
           <<LawOfDemeter("FallbackController", "_module", "_"),
             LawOfDemeter("FallbackController", "_config", "_")>>
      [] s = "inheritance" ->
           <<Module("Diamond", "NOT_THREAD_SAFE"), Module("Unresolved", "NOT_THREAD_SAFE"),
             Module("Leaf", "NOT_THREAD_SAFE")>>
      [] s = "side_effects" ->
           <<LawOfDemeter("ConnectionManager", "_config", "_"),
             Module("ConnectionApp", "NOT_THREAD_SAFE"), LawOfDemeter("ConnectionApp", "manager", ""),
             LawOfDemeter("ReverseApp", "provider", ""), Module("ReverseApp", "NOT_THREAD_SAFE")>>
      [] s = "missing_attribute" -> <<LawOfDemeter("missing_attribute.TestController", "config", "_")>>
      [] s = "wiring" -> <<Module("WiringModule", "NOT_THREAD_SAFE")>>
      [] s = "best_effort" -> <<Module("BestEffortModule", "NOT_THREAD_SAFE")>>
      [] s = "reentrant" -> <<Module("Owner", "NOT_THREAD_SAFE")>>
      [] s = "dependency_map" -> <<Module("MapModule", "NOT_THREAD_SAFE")>>
      [] s = "probe" -> <<LawOfDemeter("ProbeController", "config", "_")>>
      [] s = "two_owners" ->
           <<Module("OwnerA", "NOT_THREAD_SAFE"), Module("OwnerB", "NOT_THREAD_SAFE")>>
      [] s = "private" -> <<LawOfDemeter("TypedOwner", "config", "cfg_")>>
      [] s = "private_untyped" -> <<LawOfDemeter("UntypedOwner", "config", "cfg_")>>
      [] s = "private_object" -> <<LawOfDemeter("ObjectOwner", "config", "cfg_")>>
      [] s = "unsatisfied" ->
           <<Module("UnsatisfiedModule", "NOT_THREAD_SAFE"), Module("GreedyModule", "NOT_THREAD_SAFE")>>
      [] s = "incompatible" ->
           <<LawOfDemeter("ControllerForLine88", "config", "_"),
             LawOfDemeter("TestController", "config", "_")>>

Roots(s) ==
    CASE s = "caching" -> {"DevModule", "ProdModule"}
      [] s \in {"quick_start", "quick_start_disabled"} -> {"AppModule"}
      [] s = "selective" -> {"SelectiveTrackedConfig", "SelectiveController"}
      [] s = "multiple_decorators" -> {"multiple_decorators.AppModule", "ResourceController"}
      [] s = "stacked" -> {"TrackedConfig", "TrackedModule", "TrackedController"}
      [] s = "order" -> {"multiple_decorators.AppModule", "Controller1", "Controller2"}
      [] s = "overlap" -> {"OverlapController"}
      [] s = "fallback" -> {"FallbackController"}
      [] s = "inheritance" -> {"Diamond", "Unresolved"}
      [] s = "side_effects" -> {"ConnectionApp", "ReverseApp"}
      [] s = "missing_attribute" -> {"missing_attribute.TestController"}
      [] s = "wiring" -> {"WiringModule"}
      [] s = "best_effort" -> {"BestEffortModule"}
      [] s = "reentrant" -> {"Owner"}
      [] s = "dependency_map" -> {"MapModule"}
      [] s = "probe" -> {"ProbeController"}
      [] s = "two_owners" -> {"OwnerA", "OwnerB"}
      [] s = "private" -> {"TypedOwner"}
      [] s = "private_untyped" -> {"ConfigWithPrivate", "UntypedOwner"}
      [] s = "private_object" -> {"ObjectOwner"}
      [] s = "unsatisfied" -> {"UnsatisfiedModule", "GreedyModule"}
      [] s = "incompatible" -> {"ConfigType", "ControllerForLine88", "TestController"}

(* the class of the object the client passes for the one constructor
   parameter of c *)
ArgumentClass(c) ==
    CASE c = "SelectiveController" -> "SelectiveTrackedConfig"
      [] c \in {"ResourceController", "Controller1", "Controller2"} -> "multiple_decorators.AppModule"
      [] c = "TrackedModule" -> "TrackedConfig"
      [] c = "TrackedController" -> "TrackedModule"
      [] c = "UntypedOwner" -> "ConfigWithPrivate"
      [] OTHER -> ""

(* the assignments the client makes: attribute name of an instance of cls,
   to a primitive of prims or to an instance of refcls *)
Mutation(c, name, prims, refcls) == [cls |-> c, name |-> name, prims |-> prims, refcls |-> refcls]

Mutations(s) ==
    CASE s = "multiple_decorators" ->
           {Mutation("multiple_decorators.AppModule", "namespace", {3}, "")}
      [] s = "selective" -> {Mutation("SelectiveController", "config", {}, "SelectiveTrackedConfig")}
      [] s = "quick_start" -> {Mutation("DatabaseConfig", "timeout", {60}, "")}
      [] OTHER -> {}

(***************************************************************************)
(* The state machine                                                       *)
(***************************************************************************)
St == [heap |-> heap, attrs |-> classAttrs, hooks |-> getattribute, log |-> <<>>]

Last(op, c, o, name, r) ==
    [op |-> op, cls |-> c, obj |-> o, name |-> name, ok |-> r.ok, val |-> r.val,
     exc |-> r.exc, log |-> r.st.log]

Init ==
    /\ scenario \in Scenarios
    /\ classTable = [c \in Classes |-> ClassDef(c)]
    /\ pc = 1
    /\ heap = <<>>
    /\ classAttrs = [c \in Classes |-> ClassDef(c).members]
    /\ getattribute = [c \in Classes |-> <<>>]
    /\ declError = [c \in Classes |-> ""]
    /\ nops = 0
    /\ last = [op |-> "import", cls |-> "", obj |-> 0, name |-> "", ok |-> TRUE,
               val |-> NoneVal, exc |-> "", log |-> <<>>]
    /\ returned = <<>>

Imported == pc > Len(Program(scenario))

Commit(st) ==
    /\ Len(st.heap) <= MaxObjects
    /\ heap' = st.heap
    /\ classAttrs' = st.attrs
    /\ getattribute' = st.hooks

(* one decorator application *)
RunDecorator(step) ==
    IF step.deco = "module"
    THEN apply_module_decorator(St, step.cls, step.strategy)
    ELSE law_of_demeter(St, step.cls, step.base_ref, step.prefix)

Decorating(r, step) ==
    /\ Commit(r.st)
    /\ declError' = [declError EXCEPT ![step.cls] = r.err]
    /\ last' = [op |-> "decorate", cls |-> step.cls, obj |-> 0, name |-> step.base_ref,
                ok |-> r.err = "", val |-> NoneVal, exc |-> r.err, log |-> r.st.log]

(* the next decorator of the scenario's class statements runs; the
   decorators of a class statement that has raised are not reached *)
Decorate ==
    /\ ~Imported
    /\ IF declError[Program(scenario)[pc].cls] # ""
       THEN UNCHANGED <<heap, classAttrs, getattribute, declError, last>>
       ELSE Decorating(RunDecorator(Program(scenario)[pc]), Program(scenario)[pc])
    /\ pc' = pc + 1
    /\ UNCHANGED <<scenario, classTable, nops, returned>>

Instances(c) == {o \in 1..Len(heap) : heap[o].cls = c}

Instantiating(r, c) ==
    /\ Commit(r.st)
    /\ last' = Last("new", c, IF r.ok THEN r.val.v ELSE 0, "", r)

(* the client instantiates class c *)
New(c, args) ==
    /\ Imported
    /\ nops < MaxOps
    /\ declError[c] = ""
    /\ Instantiating(Construct(St, c, args, MaxDepth), c)
    /\ nops' = nops + 1
    /\ UNCHANGED <<scenario, classTable, pc, declError, returned>>

(* the names the client reads on object o *)
Readable(o) ==
    HintNames(get_all_type_hints(heap[o].cls))
        \cup UNION {DOMAIN classAttrs[k] : k \in Range(Mro(heap[o].cls))}
        \cup DOMAIN heap[o].dict

(* the objects the client holds: those it instantiated itself and those a
   module's factory produced for it *)
ClientObjects ==
    {o \in 1..Len(heap) : heap[o].cls \in Roots(scenario) \/ heap[o].parent # 0}

Reading(r, o, name) ==
    /\ Commit(r.st)
    /\ last' = Last("get", heap[o].cls, o, name, r)
    /\ returned' = IF r.ok THEN Append(returned, [obj |-> o, name |-> name, val |-> r.val])
                   ELSE returned

(* the client evaluates o.name *)
Get(o, name) ==
    /\ Imported
    /\ nops < MaxOps
    /\ Reading(GetAttr(St, o, name, MaxDepth), o, name)
    /\ nops' = nops + 1
    /\ UNCHANGED <<scenario, classTable, pc, declError>>

Writing(r, o, name) ==
    /\ Commit(r.st)
    /\ last' = Last("set", heap[o].cls, o, name, r)

(* the client executes o.name = v *)
Set(o, name, v) ==
    /\ Imported
    /\ nops < MaxOps
    /\ Writing(ObjectSetAttr(St, o, name, v), o, name)
    /\ nops' = nops + 1
    /\ UNCHANGED <<scenario, classTable, pc, declError, returned>>

(* the arguments the client passes to the constructor of c *)
Arguments(c) ==
    IF InitParams(c) = <<>> THEN {<<>>}
    ELSE {<<Ref(o)>> : o \in Instances(ArgumentClass(c))}

Next ==
    \/ Decorate
    \/ \E c \in Roots(scenario) : \E args \in Arguments(c) : New(c, args)
    \/ \E o \in ClientObjects : \E name \in Readable(o) : Get(o, name)
    \/ \E m \in Mutations(scenario) : \E o \in Instances(m.cls) : \E n \in m.prims :
           Set(o, m.name, Prim(n))
    \/ \E m \in Mutations(scenario) : \E o \in Instances(m.cls) :
           \E t \in Instances(m.refcls) : Set(o, m.name, Ref(t))

Spec == Init /\ [][Next]_vars

(***************************************************************************)
(* Observations the properties are stated with                             *)
(***************************************************************************)
(* the strategy of the @module declaration of class c, or "" *)
ModuleStrategy(c) ==
    LET prog == Program(scenario)
    IN  IF \E i \in 1..Len(prog) : prog[i].deco = "module" /\ prog[i].cls = c
        THEN prog[CHOOSE i \in 1..Len(prog) :
                      prog[i].deco = "module" /\ prog[i].cls = c].strategy
        ELSE ""

(* the slots of class c that are declared with a class as their type and
   given no value in the class body *)
ModuleSlots(c) ==
    LET hints == get_all_type_hints(c)
    IN  {n \in HintNames(hints) :
            /\ HintGet(hints, n) \in Classes
            /\ n \notin DOMAIN classTable[c].members}

(* the instances of class ty that a factory of owner o has created *)
CreatedFor(o, ty) == {x \in 1..Len(heap) : heap[x].parent = o /\ heap[x].cls = ty}

(* the slots of class c that carry a forwarding accessor *)
ForwardedSlots(c) == {n \in DOMAIN classAttrs[c] : classAttrs[c][n].kind = "fwd"}

(* the user property evaluations, and the base-reference reads, of a log *)
Calls(log) == [i \in 1..Len(SelectSeq(log, LAMBDA e : e.kind = "call")) |->
                  SelectSeq(log, LAMBDA e : e.kind = "call")[i].label]
BaseReads(log) == [i \in 1..Len(SelectSeq(log, LAMBDA e : e.kind = "base")) |->
                      SelectSeq(log, LAMBDA e : e.kind = "base")[i].label]

(* the value o.name has in the current state, read without evaluating
   anything: forwarding accessors and properties are followed by hand *)
RECURSIVE Peek(_, _, _)
Peek(o, name, d) ==
    IF d = 0 THEN NoneVal
    ELSE LET desc == ClassGetAttr(classAttrs, heap[o].cls, name)
             b == Peek(o, desc.base, d - 1)
         IN  IF desc.kind = "fwd"
             THEN IF b.t = "ref" THEN Peek(b.v, desc.target, d - 1) ELSE NoneVal
             ELSE IF desc.kind = "prop"
             THEN IF desc.ret = "" THEN desc.val ELSE Peek(o, desc.ret, d - 1)
             ELSE IF name \in DOMAIN heap[o].dict THEN heap[o].dict[name]
             ELSE IF desc.kind = "value" THEN desc.val
             ELSE NoneVal

(* the user properties that evaluating o.name has to evaluate, in order:
   those of its base reference, then those of its own target *)
RECURSIVE ReadsOf(_, _, _)
ReadsOf(o, name, d) ==
    IF d = 0 THEN <<>>
    ELSE LET desc == ClassGetAttr(classAttrs, heap[o].cls, name)
             b == Peek(o, desc.base, MaxDepth)
         IN  IF desc.kind = "fwd"
             THEN ReadsOf(o, desc.base, d - 1)
                      \o (IF b.t = "ref" THEN ReadsOf(b.v, desc.target, d - 1) ELSE <<>>)
             ELSE IF desc.kind = "prop"
             THEN <<desc.label>> \o (IF desc.ret = "" THEN <<>> ELSE ReadsOf(o, desc.ret, d - 1))
             ELSE <<>>

(* the last client operation read a slot that carries a forwarding accessor *)
ReadForwarded ==
    /\ last.op = "get"
    /\ last.name \in ForwardedSlots(last.cls)

(* the accessor of the slot the last operation read *)
LastAccessor == classAttrs[last.cls][last.name]

(* the law_of_demeter declarations of the scenario, by position *)
Declarations ==
    {i \in 1..Len(Program(scenario)) : Program(scenario)[i].deco = "law_of_demeter"}

(* the slots a declaration looks at, and the target member of each *)
DeclaredSlots(step) ==
    {n \in HintNames(get_all_type_hints(step.cls)) :
        should_handle_annotation(n, step.prefix) /\ n # step.base_ref}

TargetOf(step, n) == StripPrefix(n, step.prefix)

(***************************************************************************)
(* Properties                                                              *)
(***************************************************************************)

(* C1: under the Memoized (NOT_THREAD_SAFE) strategy all accesses to a
   synthesized slot on one owner instance return the identical instance,
   the factory has run once for that owner, and two distinct owners of the
   same module type never receive the same instance. *)
C1_MemoizedSlotIdentity ==
    \A i \in 1..Len(returned) :
        (/\ ModuleStrategy(heap[returned[i].obj].cls) = "NOT_THREAD_SAFE"
         /\ returned[i].name \in ModuleSlots(heap[returned[i].obj].cls))
        => /\ returned[i].val.t = "ref"
           /\ \A j \in 1..Len(returned) :
                  (/\ returned[j].name = returned[i].name
                   /\ heap[returned[j].obj].cls = heap[returned[i].obj].cls)
                  => ((returned[i].obj = returned[j].obj) <=> (returned[i].val = returned[j].val))
           /\ Cardinality(CreatedFor(returned[i].obj,
                                     HintGet(get_all_type_hints(heap[returned[i].obj].cls),
                                             returned[i].name))) = 1

(* a memoized slot was read twice on one owner and once on another owner *)
C1_Witness ==
    \E i, j, k \in 1..Len(returned) :
        /\ i < j
        /\ ModuleStrategy(heap[returned[i].obj].cls) = "NOT_THREAD_SAFE"
        /\ returned[i].name \in ModuleSlots(heap[returned[i].obj].cls)
        /\ returned[j].obj = returned[i].obj /\ returned[j].name = returned[i].name
        /\ returned[k].obj # returned[i].obj /\ returned[k].name = returned[i].name
        /\ heap[returned[k].obj].cls = heap[returned[i].obj].cls

(* C2: under the Disabled strategy any two accesses to a synthesized slot
   on one owner instance return distinct instances: each access runs the
   factory again. *)
C2_DisabledSlotFresh ==
    \A i, j \in 1..Len(returned) :
        (/\ i < j
         /\ returned[j].obj = returned[i].obj
         /\ returned[j].name = returned[i].name
         /\ ModuleStrategy(heap[returned[i].obj].cls) = "DISABLED"
         /\ returned[i].name \in ModuleSlots(heap[returned[i].obj].cls))
        => /\ returned[i].val.t = "ref" /\ returned[j].val.t = "ref"
           /\ returned[i].val # returned[j].val

(* a slot of a Disabled module was read three times on one owner *)
C2_Witness ==
    \E i, j, k \in 1..Len(returned) :
        /\ i < j /\ j < k
        /\ ModuleStrategy(heap[returned[i].obj].cls) = "DISABLED"
        /\ returned[i].name \in ModuleSlots(heap[returned[i].obj].cls)
        /\ returned[j].obj = returned[i].obj /\ returned[j].name = returned[i].name
        /\ returned[k].obj = returned[i].obj /\ returned[k].name = returned[i].name

(* C3: an access to a slot with a forwarding accessor returns the value the
   target member has now on the object the base reference holds now, and a
   target member that is a property is evaluated exactly once by the
   access: nothing is kept at the forwarding layer. *)
C3_ForwardingIsFresh ==
    (ReadForwarded /\ last.ok) =>
        /\ Peek(last.obj, LastAccessor.base, MaxDepth).t = "ref"
        /\ last.val = Peek(last.obj, last.name, MaxDepth)
        /\ Calls(last.log) = ReadsOf(last.obj, last.name, MaxDepth)

(* a forwarded slot was read, the target member was assigned, and the slot
   was read again and returned the new value *)
C3_Witness ==
    /\ ReadForwarded /\ last.ok
    /\ \E i \in 1..Len(returned) :
          /\ returned[i].obj = last.obj /\ returned[i].name = last.name
          /\ returned[i].val # last.val

(* C4: constructing an instance of a type with forwarding declarations
   reads no base reference and evaluates no target member; an access to a
   forwarded slot evaluates what its base reference and its own target
   need and no target of another slot forwarded from the same base. *)
C4_NoReadBeforeAccess ==
    /\ (last.op = "new" /\ ForwardedSlots(last.cls) # {}) =>
           /\ Calls(last.log) = <<>>
           /\ BaseReads(last.log) = <<>>
    /\ (ReadForwarded /\ last.ok) =>
           /\ Calls(last.log) = ReadsOf(last.obj, last.name, MaxDepth)
           /\ \A n \in ForwardedSlots(last.cls) :
                  (/\ n # last.name
                   /\ classAttrs[last.cls][n].base = LastAccessor.base
                   /\ classAttrs[last.cls][n].target # LastAccessor.target)
                  => \A l \in Range(ReadsOf(last.obj, n, MaxDepth)) :
                         l \in Range(ReadsOf(last.obj, LastAccessor.base, MaxDepth))
                         \/ l \notin Range(Calls(last.log))

(* the first read on an instance with two forwarded property targets
   evaluated exactly one of them *)
C4_Witness ==
    /\ ReadForwarded /\ last.ok
    /\ Len(returned) = 1
    /\ Len(Calls(last.log)) = 1
    /\ \E n \in ForwardedSlots(last.cls) :
          /\ n # last.name
          /\ ReadsOf(last.obj, n, MaxDepth) # <<>>
          /\ ReadsOf(last.obj, n, MaxDepth) # Calls(last.log)

(* C5: in the quick-start module under Memoized, the service's _timeout is
   the timeout of the module's config (30 unless assigned), and the object
   wired into the service's _config is the object module.config returns,
   whichever of the two is read first. *)
C5_QuickStartWiring ==
    scenario = "quick_start" =>
        /\ (last.op = "get" /\ last.cls = "DatabaseService" /\ last.name \in {"_timeout", "_config"})
               => (/\ last.ok
                   /\ "config" \in DOMAIN heap[heap[last.obj].parent].dict
                   /\ "_config" \in DOMAIN heap[last.obj].dict)
        /\ (last.op = "get" /\ last.cls = "DatabaseService" /\ last.name = "_timeout" /\ last.ok)
               => (/\ last.val = Peek(heap[heap[last.obj].parent].dict["config"].v, "timeout", MaxDepth)
                   /\ \/ "timeout" \in DOMAIN heap[heap[heap[last.obj].parent].dict["config"].v].dict
                      \/ last.val = Prim(30))
        /\ \A i, j \in 1..Len(returned) :
               (/\ heap[returned[i].obj].cls = "AppModule" /\ returned[i].name = "config"
                /\ heap[returned[j].obj].cls = "DatabaseService" /\ returned[j].name = "_config"
                /\ heap[returned[j].obj].parent = returned[i].obj)
               => returned[i].val = returned[j].val

(* the service's _config was read before module.config, and then _timeout
   was read *)
C5_Witness ==
    /\ scenario = "quick_start"
    /\ last.op = "get" /\ last.name = "_timeout" /\ last.ok /\ last.val = Prim(30)
    /\ \E i, j \in 1..Len(returned) :
          /\ j < i
          /\ heap[returned[i].obj].cls = "AppModule" /\ returned[i].name = "config"
          /\ returned[j].obj = last.obj /\ returned[j].name = "_config"
          /\ heap[last.obj].parent = returned[i].obj

(* C6: a slot whose target member name (the slot name without the prefix)
   starts with "_" gets no forwarding accessor from any declaration,
   whatever is known about the type of the base reference. *)
C6_PrivateTargetNeverForwarded ==
    Imported =>
        \A i \in Declarations : \A n \in DeclaredSlots(Program(scenario)[i]) :
            StartsWith(TargetOf(Program(scenario)[i], n), "_")
                => n \notin ForwardedSlots(Program(scenario)[i].cls)

(* C7: a module slot whose declared type has a constructor that requires
   arguments makes the module declaration raise the unsatisfied-dependency
   error when the decorator runs. *)
C7_UnsatisfiedAtSynthesis ==
    Imported =>
        \A i \in 1..Len(Program(scenario)) :
            (/\ Program(scenario)[i].deco = "module"
             /\ \E n \in ModuleSlots(Program(scenario)[i].cls) :
                    InitParams(HintGet(get_all_type_hints(Program(scenario)[i].cls), n)) # <<>>)
            => declError[Program(scenario)[i].cls] = "TypeError: Unsatisfied dependency"

(* C8: when the type of the base reference annotates the target member, the
   declaration raises "types incompatible" exactly when that annotation is
   incompatible with the slot's declared type, and otherwise raises
   nothing and installs the accessor. *)
C8_TypeCheckAtDeclaration ==
    Imported =>
        \A i \in Declarations : \A n \in DeclaredSlots(Program(scenario)[i]) :
            LET step == Program(scenario)[i]
                target_type == BaseRefType(step.cls, step.base_ref)
                member_type == HintGet(safe_get_type_hints(target_type), TargetOf(step, n))
                slot_type == HintGet(get_all_type_hints(step.cls), n)
            IN  (/\ target_type \in Classes
                 /\ TargetOf(step, n) \in HintNames(safe_get_type_hints(target_type))
                 /\ ~StartsWith(TargetOf(step, n), "_"))
                => IF is_type_compatible(slot_type, member_type)
                   THEN /\ declError[step.cls] = ""
                        /\ n \in ForwardedSlots(step.cls)
                   ELSE declError[step.cls] = "TypeError: types incompatible"

(* C9: when two declarations are stacked on one type and a slot is
   resolvable through both base references, the accessor of the slot
   forwards from the base reference of the declaration applied last. *)
C9_LastAppliedDeclarationWins ==
    Imported =>
        \A i, j \in Declarations : \A n \in DeclaredSlots(Program(scenario)[i]) :
            (/\ i < j
             /\ Program(scenario)[i].cls = Program(scenario)[j].cls
             /\ declError[Program(scenario)[i].cls] = ""
             /\ n \in DeclaredSlots(Program(scenario)[j])
             /\ ClassHasAttr(classAttrs, BaseRefType(Program(scenario)[i].cls, Program(scenario)[i].base_ref),
                             TargetOf(Program(scenario)[i], n))
             /\ ClassHasAttr(classAttrs, BaseRefType(Program(scenario)[j].cls, Program(scenario)[j].base_ref),
                             TargetOf(Program(scenario)[j], n)))
            => /\ n \in ForwardedSlots(Program(scenario)[i].cls)
               /\ classAttrs[Program(scenario)[i].cls][n].base = Program(scenario)[j].base_ref

(* C10: in the stacked scenario (_timeout forwarded from _config, _config
   forwarded from _module.config) constructing the controller evaluates
   nothing, reading _config evaluates exactly module.config, and reading
   _timeout evaluates exactly module.config and then config.timeout. *)
C10_StackedCallChain ==
    (scenario = "stacked" /\ last.cls = "TrackedController") =>
        /\ (last.op = "new") => (Calls(last.log) = <<>> /\ BaseReads(last.log) = <<>>)
        /\ (last.op = "get" /\ last.name = "_config") =>
               (last.ok /\ Calls(last.log) = <<"module.config">>)
        /\ (last.op = "get" /\ last.name = "_timeout") =>
               (last.ok /\ Calls(last.log) = <<"module.config", "config.timeout">>)

(* the controller's _timeout was read after its _config *)
C10_Witness ==
    /\ scenario = "stacked"
    /\ last.op = "get" /\ last.cls = "TrackedController" /\ last.name = "_timeout"
    /\ last.val = Prim(300)
    /\ \E i \in 1..Len(returned) : returned[i].obj = last.obj /\ returned[i].name = "_config"

(* the value the member has on the base that actually has it: on the
   module the controller was built with, or on that module's config *)
MemberThroughModule(o, target) ==
    LET m == heap[o].dict["_module"].v
    IN  IF target \in DOMAIN heap[m].dict THEN heap[m].dict[target]
        ELSE Peek(heap[m].dict["config"].v, target, MaxDepth)

(* C11: with two stacked declarations on untyped base references, applied
   in either order, a read of each forwarded slot succeeds and returns the
   member of the base that has it, so both orders return the same values. *)
C11_OrderIndependence ==
    (/\ scenario = "order"
     /\ last.op = "get"
     /\ last.cls \in {"Controller1", "Controller2"}
     /\ last.name \in {"_timeout", "_is_dry_run", "_api", "_namespace"})
    => /\ last.ok
       /\ last.val = MemberThroughModule(last.obj, StripPrefix(last.name, "_"))

(* the object the instance attribute base of o holds has the member target *)
BaseHasMember(o, base, target) ==
    /\ base \in DOMAIN heap[o].dict
    /\ heap[o].dict[base].t = "ref"
    /\ \/ target \in DOMAIN heap[heap[o].dict[base].v].dict
       \/ ClassHasAttr(classAttrs, heap[heap[o].dict[base].v].cls, target)

(* C12: a read of a forwarded slot that fails through one declared base
   reference continues with the next one, so it succeeds whenever some
   declaration of the type names a base reference that is present on the
   instance and whose value has the target member. *)
C12_FallbackThroughDeclaredBases ==
    (/\ ReadForwarded
     /\ \E i \in Declarations :
            /\ Program(scenario)[i].cls = last.cls
            /\ last.name \in DeclaredSlots(Program(scenario)[i])
            /\ BaseHasMember(last.obj, Program(scenario)[i].base_ref,
                             TargetOf(Program(scenario)[i], last.name)))
    => last.ok

(***************************************************************************)
(* The Contract of a type against the declarations of its ancestry         *)
(***************************************************************************)
(* the slot names declared by any class of the linearized ancestry of c *)
AncestrySlots(c) == UNION {HintNames(classTable[k].ann) : k \in Range(Mro(c))}

(* the positions, in the linearized ancestry of c, of the classes declaring name *)
Declaring(c, name) == {i \in 1..Len(Mro(c)) : name \in HintNames(classTable[Mro(c)[i]].ann)}

(* the type given to name by the most-derived class of the ancestry of c
   that declares it *)
MostDerivedType(c, name) ==
    LET i == CHOOSE i \in Declaring(c, name) : \A j \in Declaring(c, name) : i <= j
    IN  HintGet(classTable[Mro(c)[i]].ann, name)

ContractIsAncestryMerge(c) ==
    /\ HintNames(get_all_type_hints(c)) = AncestrySlots(c)
    /\ \A n \in AncestrySlots(c) : HintGet(get_all_type_hints(c), n) = MostDerivedType(c, n)

AncestryResolves(c) == \A k \in Range(Mro(c)) : classTable[k].resolvable

(* C13, as stated: whenever a synthesizer has collected Contracts, the
   Contract of every type contains every slot declared
   anywhere in its linearized ancestry, each with the type declared by the
   most-derived class declaring it. *)
C13_ContractMergesAncestry ==
    last.op = "decorate" => \A c \in Classes : ContractIsAncestryMerge(c)

(* C13, amended: the same, for every type all of whose ancestry's
   declarations resolve (single and multiple inheritance alike); the
   declarations of a class that do not resolve are skipped. *)
C13_ContractMergesResolvableAncestry ==
    last.op = "decorate" => \A c \in Classes : AncestryResolves(c) => ContractIsAncestryMerge(c)

(* module synthesis has read the Contract of Diamond, whose ancestry
   declares service twice (Parent: Config, Right: API), and has installed
   the factory of the most-derived declaration *)
C13_Witness ==
    /\ scenario = "inheritance"
    /\ Cardinality(Declaring("Diamond", "service")) = 2
    /\ AncestryResolves("Diamond")
    /\ "service" \in DOMAIN classAttrs["Diamond"]
    /\ classAttrs["Diamond"]["service"].kind = "cfactory"
    /\ classAttrs["Diamond"]["service"].type = "API"
    /\ last.op = "get" /\ last.cls = "Diamond" /\ last.name = "service" /\ last.ok
    /\ heap[last.val.v].cls = "API"

(***************************************************************************)
(* Module synthesis and forwarding declarations on one type                *)
(***************************************************************************)
(* the slots of the Contract of c that have an accessor or a concrete
   class-level value *)
Implemented(attrs, c) ==
    {n \in HintNames(get_all_type_hints(c)) :
        \E k \in Range(Mro(c)) : /\ n \in DOMAIN attrs[k]
                                 /\ ~(attrs[k][n].kind = "class" /\ attrs[k][n].label = n)}

(* the slots of the Contract of c for which module synthesis raises *)
Unsatisfiable(attrs, c) ==
    {n \in HintNames(get_all_type_hints(c)) \ Implemented(attrs, c) :
        /\ ~can_create_type(HintGet(get_all_type_hints(c), n))
        /\ HintGet(get_all_type_hints(c), n) \notin PrimitiveTypes \cup BuiltinContainerTypes}

(* C14: a decorator application leaves every slot that already has an
   accessor or a concrete class-level value as it was, whichever synthesizer
   installed it, and module synthesis raises only for slots that have none. *)
C14_ImplementedSlotsUntouched ==
    [][pc' = pc + 1 =>
         /\ \A n \in Implemented(classAttrs, Program(scenario)[pc].cls) :
                ClassGetAttr(classAttrs', Program(scenario)[pc].cls, n)
                    = ClassGetAttr(classAttrs, Program(scenario)[pc].cls, n)
         /\ (/\ Program(scenario)[pc].deco = "module"
             /\ Unsatisfiable(classAttrs, Program(scenario)[pc].cls) = {})
            => declError'[Program(scenario)[pc].cls] = declError[Program(scenario)[pc].cls]]_vars

(* both orders have been applied: ConnectionApp (module synthesis, then a
   forwarding declaration) and ReverseApp (a forwarding declaration, then
   module synthesis) carry one accessor per slot, and a forwarded slot is read *)
C14_Witness ==
    /\ scenario = "side_effects"
    /\ Imported
    /\ declError["ConnectionApp"] = "" /\ declError["ReverseApp"] = ""
    /\ DOMAIN classAttrs["ConnectionManager"] = {"_url"}
    /\ DOMAIN classAttrs["ConnectionApp"] = {"config", "manager", "connections"}
    /\ classAttrs["ConnectionApp"]["config"].kind = "cfactory"
    /\ classAttrs["ConnectionApp"]["manager"].kind = "cfactory"
    /\ classAttrs["ConnectionApp"]["connections"].kind = "fwd"
    /\ DOMAIN classAttrs["ReverseApp"] = {"provider", "dependency"}
    /\ classAttrs["ReverseApp"]["provider"].kind = "cfactory"
    /\ classAttrs["ReverseApp"]["dependency"].kind = "fwd"
    /\ last.op = "get" /\ last.cls = "ReverseApp" /\ last.name = "dependency"
    /\ last.ok /\ last.val = Prim(5)

(***************************************************************************)
(* The outcomes of module synthesis, slot by slot                          *)
(***************************************************************************)
(* a nominal type of the program that can be instantiated without arguments *)
NullaryConstructible(ty) == ty \in Classes /\ InitParams(ty) = <<>>

RecognizedPrimitive(ty) == ty \in PrimitiveTypes \cup BuiltinContainerTypes

IsFactory(attr) == attr.kind \in {"factory", "cfactory"}

(* C15: when module synthesis is applied to a type, every slot of its
   Contract without accessor or class-level value gets exactly one outcome:
   its type is constructible and a factory accessor is installed, or its
   type is a recognized primitive/container and nothing is installed, or
   the application raises the unsatisfied-dependency error; and the error
   is raised exactly when some such slot is neither constructible nor a
   recognized primitive/container. *)
C15_GreedyOutcomes ==
    [][(/\ pc' = pc + 1
        /\ Program(scenario)[pc].deco = "module"
        /\ declError[Program(scenario)[pc].cls] = "")
       => LET c == Program(scenario)[pc].cls
              hints == get_all_type_hints(c)
              open == HintNames(hints) \ Implemented(classAttrs, c)
              hopeless == {n \in open : /\ ~NullaryConstructible(HintGet(hints, n))
                                         /\ ~RecognizedPrimitive(HintGet(hints, n))}
          IN  /\ (declError'[c] = "TypeError: Unsatisfied dependency") <=> (hopeless # {})
              /\ declError'[c] = "" =>
                   \A n \in open :
                       IF NullaryConstructible(HintGet(hints, n))
                       THEN /\ n \in DOMAIN classAttrs'[c]
                            /\ IsFactory(classAttrs'[c][n])
                       ELSE /\ RecognizedPrimitive(HintGet(hints, n))
                            /\ n \notin DOMAIN classAttrs'[c]]_vars

(***************************************************************************)
(* The analyzer's verdict against the evidence the base type gives         *)
(***************************************************************************)
(* the members the constructor of ty assigns *)
ConstructorAssigns(ty) == {InitBody(ty)[i].attr : i \in 1..Len(InitBody(ty))}

(* the base type's Contract contains the target, or the base type exposes
   it as a class-level member, or its constructor assigns it *)
Provable(ty, target) ==
    \/ target \in HintNames(safe_get_type_hints(ty))
    \/ ClassHasAttr(classAttrs, ty, target)
    \/ target \in ConstructorAssigns(ty)

(* the slots of class c some declaration looks at *)
DeclaredSlotsOf(c) ==
    UNION {DeclaredSlots(Program(scenario)[i]) : i \in {j \in Declarations : Program(scenario)[j].cls = c}}

(* the declarations of class c that look at slot n *)
DeclarationsOn(c, n) ==
    {i \in Declarations : Program(scenario)[i].cls = c /\ n \in DeclaredSlots(Program(scenario)[i])}

(* declaration i has a known nominal base type and a public target for n *)
Analyzable(i, n) ==
    /\ BaseRefType(Program(scenario)[i].cls, Program(scenario)[i].base_ref) \in Classes
    /\ ~StartsWith(TargetOf(Program(scenario)[i], n), "_")

ProvableBy(i, n) ==
    Provable(BaseRefType(Program(scenario)[i].cls, Program(scenario)[i].base_ref),
             TargetOf(Program(scenario)[i], n))

(* the slot's declared type does not conflict with an annotation of the target *)
NoTypeConflict(i, n) ==
    LET step == Program(scenario)[i]
        hints == safe_get_type_hints(BaseRefType(step.cls, step.base_ref))
    IN  TargetOf(step, n) \in HintNames(hints)
            => is_type_compatible(HintGet(get_all_type_hints(step.cls), n),
                                  HintGet(hints, TargetOf(step, n)))

(* C16: for the slots of a type that only forwarding declarations with a
   known nominal base type and a public target look at: if a declaration
   finds the target in the base type's Contract, among its class-level
   members or among its constructor's assignments, the declaration raises
   nothing and the slot has a forwarding accessor; if none does, the
   declarations raise nothing, the type gets no attribute for the slot, and
   reading it on an instance that was not given it raises AttributeError. *)
C16_AnalyzerVerdict ==
    Imported =>
        \A c \in Classes : \A n \in HintNames(get_all_type_hints(c)) :
            (/\ DeclarationsOn(c, n) # {}
             /\ \A i \in 1..Len(Program(scenario)) :
                    Program(scenario)[i].cls = c => Program(scenario)[i].deco = "law_of_demeter"
             /\ \A i \in DeclarationsOn(c, n) : Analyzable(i, n) /\ NoTypeConflict(i, n)
             /\ \A m \in DeclaredSlotsOf(c) : \A i \in DeclarationsOn(c, m) : NoTypeConflict(i, m)
             /\ n \notin DOMAIN classTable[c].members)
            => IF \E i \in DeclarationsOn(c, n) : ProvableBy(i, n)
               THEN declError[c] = "" /\ n \in ForwardedSlots(c)
               ELSE /\ declError[c] = ""
                    /\ n \notin DOMAIN classAttrs[c]
                    /\ (/\ last.op = "get" /\ last.cls = c /\ last.name = n
                        /\ n \notin DOMAIN heap[last.obj].dict)
                       => (~last.ok /\ last.exc = "AttributeError")

(***************************************************************************)
(* The one-shot dependency setup of a factory-produced instance            *)
(***************************************************************************)
(* how often the setup closure of an instance of class c was started *)
Setups(log, c) == Len(SelectSeq(log, LAMBDA e : e.kind = "setup" /\ e.label = c))

(* the slot names of o's DependencyMap *)
MappedSlots(o) == HintNames(heap[o].depmap)

(* reading name on o runs no accessor *)
PlainName(o, name) ==
    ClassGetAttr(classAttrs, heap[o].cls, name).kind \in {"value", "absent"}

(* the client reads a name on an existing factory-produced instance with a
   non-empty DependencyMap *)
ReadsDependency ==
    /\ nops' = nops + 1
    /\ last'.op = "get"
    /\ last'.obj \in 1..Len(heap)
    /\ heap[last'.obj].depmap # <<>>

(* C17: a read of a mapped slot while the setup is pending starts the setup
   exactly once and leaves it no longer pending when the read is over; a
   read of a plain unmapped name while it is pending does not start it; once
   it is no longer pending no read starts it. *)
C17_SetupOnFirstMappedAccess ==
    [][ReadsDependency =>
          LET o == last'.obj
              ran == Setups(last'.log, heap[last'.obj].cls)
          IN  /\ (heap[o].setup /\ last'.name \in MappedSlots(o))
                    => (ran = 1 /\ ~heap'[o].setup)
              /\ (heap[o].setup /\ last'.name \notin MappedSlots(o) /\ PlainName(o, last'.name))
                    => (ran = 0 /\ heap'[o].setup)
              /\ ~heap[o].setup => ran = 0]_vars

(* C18: within one read, the setup of a dependency instance is started at
   most once, however the owner slots it reads are computed, and the read
   terminates without exhausting the call stack. *)
C18_NoReentrantSetup ==
    last.op = "get" =>
        /\ last.exc # "RecursionError"
        /\ \A c \in Classes : Setups(last.log, c) <= 1

(* C19: when a read of a dependency instance that started its setup is
   over, with a value or with an error, the instance holds neither the
   pending setup callable nor the DependencyMap. *)
C19_PendingStateCleared ==
    (last.op = "get" /\ Setups(last.log, last.cls) >= 1)
        => /\ ~heap[last.obj].setup
           /\ heap[last.obj].depmap = <<>>

(* the owner can supply slot t: it holds a value for it, or its class has a
   plain value or a factory accessor of a constructible type for it *)
OwnerSupplies(owner, t) ==
    \/ t \in DOMAIN heap[owner].dict
    \/ ClassGetAttr(classAttrs, heap[owner].cls, t).kind = "value"
    \/ /\ IsFactory(ClassGetAttr(classAttrs, heap[owner].cls, t))
       /\ NullaryConstructible(ClassGetAttr(classAttrs, heap[owner].cls, t).type)

(* C20: a read of a dependency instance that started its setup fails at
   most with the AttributeError of its own lookup, never with an error of
   reading an owner slot, and when it is over every mapped plain slot whose
   owner slot can be supplied has been assigned on the instance. *)
C20_BestEffortWiring ==
    (last.op = "get" /\ Setups(last.log, last.cls) >= 1)
        => /\ last.ok \/ last.exc = "AttributeError"
           /\ \A i \in 1..Len(heap[last.obj].depmap) :
                  (/\ PlainName(last.obj, heap[last.obj].depmap[i].n)
                   /\ OwnerSupplies(heap[last.obj].parent, heap[last.obj].depmap[i].t))
                  => heap[last.obj].depmap[i].n \in DOMAIN heap[last.obj].dict

(***************************************************************************)
(* The DependencyMap of a factory-produced instance                        *)
(***************************************************************************)
(* the instances a factory has produced *)
FactoryProduced == {o \in 1..Len(heap) : heap[o].parent # 0}

(* the owner slot that supplies slot d, or "" *)
Supplier(d, owner_names) ==
    IF d \in owner_names THEN d
    ELSE IF StartsWith(d, "_") /\ StripPrefix(d, "_") \in owner_names THEN StripPrefix(d, "_")
    ELSE ""

OwnerNames(o) == HintNames(get_all_type_hints(heap[heap[o].parent].cls))

(* C21: the DependencyMap of a factory-produced instance maps each slot d
   of its Contract to d if the owner's Contract has d, otherwise to d
   without its leading "_" if the owner's Contract has that, and to nothing
   otherwise; an instance with an empty map carries no pending setup. *)
C21_DependencyMapRule ==
    \A o \in FactoryProduced :
        LET owner_names == OwnerNames(o)
        IN  /\ HintNames(heap[o].depmap)
                   = {d \in HintNames(get_all_type_hints(heap[o].cls)) :
                         Supplier(d, owner_names) # ""}
            /\ \A i \in 1..Len(heap[o].depmap) :
                   heap[o].depmap[i].t = Supplier(heap[o].depmap[i].n, owner_names)
            /\ heap[o].depmap = <<>> => ~heap[o].setup

(* the factories of MapModule have produced a service, whose _config is
   matched directly although config is in the owner's Contract too and
   whose _timeout is matched without its "_", and a Config with an empty map *)
C21_Witness ==
    /\ scenario = "dependency_map"
    /\ \E o \in FactoryProduced :
          /\ heap[o].cls = "MapService"
          /\ heap[o].setup
          /\ \E i, j \in 1..Len(heap[o].depmap) :
                /\ heap[o].depmap[i] = Hint("_config", "_config")
                /\ heap[o].depmap[j] = Hint("_timeout", "timeout")
          /\ "other" \notin HintNames(heap[o].depmap)
    /\ \E o \in FactoryProduced : heap[o].cls = "Config" /\ heap[o].depmap = <<>>

(* C22: the DependencyMap of a factory-produced instance holds no slot for
   which the instance's type has a class-level value or an accessor, and the
   instance never holds a value of its own for such a slot after a read. *)
C22_OnlyUnmetSlotsMapped ==
    \A o \in FactoryProduced :
        \A d \in Implemented(classAttrs, heap[o].cls) :
            /\ d \notin HintNames(heap[o].depmap)
            /\ last.op = "get" => d \notin DOMAIN heap[o].dict

(* the owner slots that a read of name on o is entitled to resolve: the slot
   itself, the base reference and the target of a forwarding accessor, the
   slot a property returns, and the owner slot that name is wired from *)
RECURSIVE Demanded(_, _, _, _, _)
Demanded(h, attrs, o, name, k) ==
    IF k = 0 THEN {}
    ELSE LET desc == ClassGetAttr(attrs, h[o].cls, name)
         IN  {<<o, name>>}
             \cup (IF desc.kind = "fwd"
                   THEN Demanded(h, attrs, o, desc.base, k - 1)
                        \cup (IF desc.base \in DOMAIN h[o].dict /\ h[o].dict[desc.base].t = "ref"
                              THEN Demanded(h, attrs, h[o].dict[desc.base].v, desc.target, k - 1)
                              ELSE {})
                   ELSE {})
             \cup (IF desc.kind \in {"prop", "cprop"} /\ desc.ret # ""
                   THEN Demanded(h, attrs, o, desc.ret, k - 1)
                   ELSE {})
             \cup (IF h[o].parent # 0 /\ name \in HintNames(h[o].depmap)
                   THEN Demanded(h, attrs, h[o].parent, HintGet(h[o].depmap, name), k - 1)
                   ELSE {})

(* the keys of o.__dict__ before the step; none for an object the step made *)
KeysBefore(o) == IF o \in 1..Len(heap) THEN DOMAIN heap[o].dict ELSE {}

(* C23: a read of name on o caches the value of a factory-backed slot X of
   an object p only if X on p is the slot read, or a slot that the value read
   is forwarded or wired from; in particular a read of one mapped slot of a
   dependency instance leaves the owner's factories of the other mapped
   slots uninvoked. *)
C23_DeferredPerSlot ==
    [][(nops' = nops + 1 /\ last'.op = "get" /\ last'.obj \in 1..Len(heap))
           => \A p \in 1..Len(heap') :
                  \A X \in DOMAIN heap'[p].dict \ KeysBefore(p) :
                      IsFactory(ClassGetAttr(classAttrs', heap'[p].cls, X))
                          => <<p, X>> \in Demanded(heap', classAttrs', last'.obj,
                                                   last'.name, MaxDepth)]_vars

(* the decorator that has just run is a forwarding declaration *)
ForwardingDeclared ==
    /\ last.op = "decorate"
    /\ pc > 1
    /\ Program(scenario)[pc - 1].deco = "law_of_demeter"
    /\ Program(scenario)[pc - 1].cls = last.cls
    /\ Program(scenario)[pc - 1].base_ref = last.name

(* C24: a forwarding declaration runs no constructor and no accessor: when
   it is over, no constructor side effect, accessor call, base-reference read
   or dependency setup has happened, and no instance exists. *)
C24_DeclarationIsStatic ==
    ForwardingDeclared => last.log = <<>> /\ heap = <<>>

(* the constructor parameters of c that carry a declared type and match the
   base reference by its exact name or by its name without the leading "_" *)
TypedParams(c, b) ==
    {i \in 1..Len(InitParams(c)) :
        /\ InitParams(c)[i].t # "None"
        /\ \/ InitParams(c)[i].n = b
           \/ StartsWith(b, "_") /\ InitParams(c)[i].n = StripPrefix(b, "_")}

(* slot n of class c had a class-level member, or an accessor of an earlier
   declaration, when declaration i ran *)
ImplementedBefore(c, n, i) ==
    \/ \E k \in Range(Mro(c)) : n \in DOMAIN classTable[k].members
    \/ /\ n \in DOMAIN classAttrs[c]
       /\ \E j \in 1..(i - 1) :
              /\ Program(scenario)[j].cls = c
              /\ \/ IsFactory(classAttrs[c][n])
                 \/ /\ classAttrs[c][n].kind = "fwd"
                    /\ classAttrs[c][n].base = Program(scenario)[j].base_ref
                    /\ Program(scenario)[j].base_ref # Program(scenario)[i].base_ref

(* the slots declaration i is applied to *)
EligibleSlots(i) ==
    {n \in DeclaredSlots(Program(scenario)[i]) : ~ImplementedBefore(Program(scenario)[i].cls, n, i)}

(* slot n of the declared class forwards to its target through the
   declaration's base reference *)
ForwardsThrough(step, n) ==
    /\ n \in DOMAIN classAttrs[step.cls]
    /\ classAttrs[step.cls][n] = Forwarding(step.base_ref, TargetOf(step, n))

(* C25: after a forwarding declaration whose base reference is not in the
   owner's Contract: if no constructor parameter matching the base reference
   (exactly, or without its leading "_") has a declared type, the
   declaration raises nothing and every eligible slot forwards through the
   base reference; if such a parameter has a declared nominal type and the
   declaration raises nothing, an eligible slot forwards through the base
   reference exactly when its target is public and that type exposes it. *)
C25_BaseTypeFromConstructor ==
    ForwardingDeclared =>
        LET i == pc - 1
            step == Program(scenario)[pc - 1]
            typed == TypedParams(step.cls, step.base_ref)
        IN  step.base_ref \notin HintNames(get_all_type_hints(step.cls)) =>
                IF typed = {}
                THEN /\ declError[step.cls] = ""
                     /\ \A n \in EligibleSlots(i) : ForwardsThrough(step, n)
                ELSE \A p \in typed :
                         (InitParams(step.cls)[p].t \in Classes /\ declError[step.cls] = "") =>
                             \A n \in EligibleSlots(i) :
                                 ForwardsThrough(step, n)
                                     <=> /\ ~StartsWith(TargetOf(step, n), "_")
                                         /\ Provable(InitParams(step.cls)[p].t, TargetOf(step, n))

C25_Witness ==
    /\ scenario = "multiple_decorators"
    /\ ForwardingDeclared
    /\ pc = 2
    /\ last.cls = "ResourceController"
    /\ last.name = "_module"
    /\ TypedParams("ResourceController", "_module") = {}
    /\ "_module" \notin HintNames(get_all_type_hints("ResourceController"))
    /\ EligibleSlots(1) = {"_timeout", "_is_dry_run", "_api", "_namespace"}
    /\ \A n \in EligibleSlots(1) : classAttrs["ResourceController"][n] = Forwarding("_module", StripPrefix(n, "_"))

(***************************************************************************)
(* The type compatibility check, applied to pairs of type annotations      *)
(***************************************************************************)
(* the annotations the check is applied to: unknown and open types, the
   builtin classes, generic aliases, forward references and the classes of
   the inheritance scenario *)
TypeAnnotations ==
    {"None", "Any", "object"} \cup PrimitiveTypes \cup BuiltinContainerTypes
        \cup GenericTypes \cup ForwardRefs
        \cup {"Parent", "Left", "Right", "Diamond", "Config"}

CompatInit ==
    /\ scenario = "inheritance"
    /\ classTable = [c \in Classes |-> ClassDef(c)]
    /\ pc = 1
    /\ heap = <<>>
    /\ classAttrs = [c \in Classes |-> ClassDef(c).members]
    /\ getattribute = [c \in Classes |-> <<>>]
    /\ declError = [c \in Classes |-> ""]
    /\ nops = 0
    /\ last = [op |-> "import", expected_type |-> "", actual_type |-> "", result |-> TRUE]
    /\ returned = <<>>

(* a caller evaluates is_type_compatible(expected_type, actual_type) *)
Compare(expected_type, actual_type) ==
    /\ last' = [op |-> "is_type_compatible", expected_type |-> expected_type,
                actual_type |-> actual_type,
                result |-> is_type_compatible(expected_type, actual_type)]
    /\ UNCHANGED <<scenario, classTable, pc, heap, classAttrs, getattribute, declError,
                   nops, returned>>

CompatNext ==
    \E expected_type \in TypeAnnotations : \E actual_type \in TypeAnnotations :
        Compare(expected_type, actual_type)

CompatSpec == CompatInit /\ [][CompatNext]_vars

(* a concrete nominal type: a class, as opposed to an unknown or open type, a
   forward reference or a generic alias *)
Nominal(ty) ==
    ty \in DOMAIN classTable \cup PrimitiveTypes \cup BuiltinContainerTypes \cup {"object"}

(* provided is a proper descendant of required *)
Descends(provided, required) ==
    /\ provided # required
    /\ \/ required = "object"
       \/ provided = "bool" /\ required = "int"
       \/ provided \in DOMAIN classTable /\ required \in Range(classTable[provided].mro)

(* C26: is_type_compatible(required, provided) is false exactly when both
   types are concrete nominal types, they are not equal, and the provided
   type is not a descendant of the required type; in every other case it is
   true. *)
C26_TypeCompatibility ==
    last.op = "is_type_compatible" =>
        (~last.result
            <=> /\ Nominal(last.expected_type)
                /\ Nominal(last.actual_type)
                /\ last.expected_type # last.actual_type
                /\ ~Descends(last.actual_type, last.expected_type))

C26_Witness ==
    /\ last.op = "is_type_compatible"
    /\ last.expected_type = "Diamond"
    /\ last.actual_type = "Parent"
    /\ ~last.result

(* C27: the Contract collected for the type a declaration is applied to
   contains the slots that every class of its ancestry with resolvable
   declarations declares, whether that class is an ancestor or a descendant
   of a class whose declarations cannot be resolved. *)
C27_CollectionFailsSoftly ==
    last.op = "decorate" =>
        \A k \in Range(Mro(last.cls)) :
            classTable[k].resolvable =>
                HintNames(classTable[k].ann) \subseteq HintNames(get_all_type_hints(last.cls))

(* C28: a module synthesis that raises leaves the type as it was: the
   attributes of the type after the failed application are those before it. *)
C28_FailedSynthesisLeavesTypeUnchanged ==
    [][(/\ pc' = pc + 1
        /\ Program(scenario)[pc].deco = "module"
        /\ declError[Program(scenario)[pc].cls] = ""
        /\ declError'[Program(scenario)[pc].cls] # "")
       => classAttrs'[Program(scenario)[pc].cls] = classAttrs[Program(scenario)[pc].cls]]_vars

(* C29: whatever number of factory invocations has happened, an attribute
   read on an instance of a dependency type passes through at most one
   interception layer. *)
C29_OneHookPerType ==
    \A c \in Classes : Len(HookChain(getattribute, c)) <= 1

(* the mapped slots that a step assigned on dependency instance o *)
WiredBy(o) ==
    {i \in 1..Len(heap[o].depmap) :
        heap[o].depmap[i].n \in DOMAIN heap'[o].dict \ DOMAIN heap[o].dict}

(* v is what reading slot t of the owner instance gives when the step is
   over: the value the owner holds, its class-level value, or an instance
   its factory produced *)
FromOwner(owner, t, v) ==
    IF t \in DOMAIN heap'[owner].dict THEN v = heap'[owner].dict[t]
    ELSE IF ClassGetAttr(classAttrs', heap'[owner].cls, t).kind = "value"
    THEN v = ClassGetAttr(classAttrs', heap'[owner].cls, t).val
    ELSE v.t = "ref" /\ heap'[v.v].parent = owner

(* C30: a read of a plain name on a dependency instance whose setup is
   pending starts the setup only if the name is in that instance's own
   DependencyMap, whatever maps other owners gave to other instances of the
   type; and each slot the setup assigns holds the value of the mapped slot
   of the owner instance whose factory produced the instance. *)
C30_SetupIsolatedPerInstance ==
    [][(ReadsDependency /\ heap[last'.obj].setup /\ PlainName(last'.obj, last'.name))
          => /\ Setups(last'.log, heap[last'.obj].cls) > 0
                    => last'.name \in MappedSlots(last'.obj)
             /\ \A i \in WiredBy(last'.obj) :
                    FromOwner(heap[last'.obj].parent, heap[last'.obj].depmap[i].t,
                              heap'[last'.obj].dict[heap[last'.obj].depmap[i].n])]_vars

====
